---- MODULE Spec2Model ----
(***************************************************************************)
(* ioc233-go: the IOC container of src/ioc.go (Container.Provide,          *)
(* Container.ProvideByName, Container.StartUp, injectInternal,             *)
(* GetObjectByType) and the lifecycle interfaces of src/unnamed/part_000.  *)
(*                                                                         *)
(* Every public operation takes c.mutex for its whole body, so each        *)
(* operation is one atomic action.  Go's `range` over a map visits the     *)
(* entries in an order the runtime chooses per loop; each loop over        *)
(* typeToObjectMap therefore draws its own permutation.                    *)
(*                                                                         *)
(* Three specifications:                                                   *)
(*   Spec      one caller making API calls one after another;              *)
(*   SpecLock  goroutines making one call each, with c.mutex taken and     *)
(*             released in steps of their own, Provide split at its        *)
(*             duplicate-type test and StartUp split at its loop           *)
(*             iterations, and with hooks that may call the container;     *)
(*   SpecOnce  goroutines calling Instance(), with the steps of sync.Once. *)
(***************************************************************************)
EXTENDS Naturals, Sequences, FiniteSets, TLC

\* ------------------------------------------------------------------ bounds
\* Number of API calls explored on one container.
MaxCalls == 3
\* Number of Instance() calls each goroutine makes.
MaxInstanceCalls == 2

\* ---------------------------------------------------------------- universe
\* The nil interface value / an absent map entry.
Nil == "nil"
\* A freshly made empty map or slice (reflect.MakeMap / reflect.MakeSlice).
Empty == "empty"
\* A value the caller stored in a field before registering the bean
\* (an object the container does not know).
Ext == "ext"

\* The goroutines that call the container concurrently.
Threads == {"t1", "t2", "t3"}

\* Bean instances the caller may hand to the container.
\* a1, a2 : *SvcA     b1 : SvcB (a struct value, not a pointer)     c1 : *Ctrl
Instances == {"a1", "a2", "b1", "c1"}

Types == {"*SvcA", "SvcB", "*Ctrl"}

Ifaces == {"Svc", "Cache"}

\* Names the caller passes to ProvideByName; "" and " " are blank.
Names == {"x", "y", "SvcA", " ", ""}

\* reflect.TypeOf(instance)
TypeOf(i) ==
    CASE i \in {"a1", "a2"} -> "*SvcA"
      [] i = "b1"           -> "SvcB"
      [] i = "c1"           -> "*Ctrl"

\* t.Kind()
Kind(t) ==
    CASE t \in {"*SvcA", "*Ctrl"} -> "ptr"
      [] t \in Ifaces            -> "interface"
      [] t = "[]string"          -> "slice"
      [] t = "map[string]int"    -> "map"
      [] OTHER                   -> "struct"

\* t.Name(): the declared name of a named type, "" for a pointer type.
TName(t) == IF Kind(t) = "ptr" THEN "" ELSE t

\* t.Elem().Name() of a pointer type.
ElemName(t) ==
    CASE t = "*SvcA" -> "SvcA"
      [] t = "*Ctrl" -> "Ctrl"
      [] OTHER       -> ""

\* The simple name of a type as Provide, StartUp and injectInternal compute it:
\* t.Name(), else t.Elem().Name() of a pointer, else t.String().
SimpleName(t) ==
    IF TName(t) # "" THEN TName(t)
    ELSE IF Kind(t) = "ptr" /\ ElemName(t) # "" THEN ElemName(t)
    ELSE t

\* objType.Implements(iface) || (objType.Kind()==Ptr && objType.Elem().Implements(iface))
Implements(t, iface) == iface = "Svc" /\ t \in {"*SvcA", "SvcB"}

\* objType.AssignableTo(fieldType)
AssignableTo(ot, ft) == ot = ft \/ (Kind(ft) = "interface" /\ Implements(ot, ft))

\* The lifecycle interfaces a type implements (src/unnamed/part_000).
HooksOf(t) ==
    CASE t = "*SvcA" -> {"OnProvideAfter", "OnInjectBefore", "OnInjectAfter", "OnInjectComplete"}
      [] t = "SvcB"  -> {"OnProvideAfter", "OnInjectComplete"}
      [] t = "*Ctrl" -> {"OnInjectBefore", "OnInjectAfter", "OnInjectComplete"}

\* strings.TrimSpace(name) == ""
IsBlank(name) == name \in {"", " "}

\* The struct fields of each bean type, in declaration order:
\*   tag      the autowire/inject tag ("" when the field carries none)
\*   ftype    the field's type
\*   exported whether the field is exported (CanSet on an addressable struct)
Fld(n, tag, ft, ex) == [name |-> n, tag |-> tag, ftype |-> ft, exported |-> ex]

FieldsOf(t) ==
    CASE t = "*SvcA" -> << Fld("Next", "true", "Svc", TRUE),
                           Fld("Alt", "false", "Svc", TRUE),
                           Fld("Peer", "y", "*Ctrl", TRUE) >>
      [] t = "SvcB"  -> << Fld("Dep", "true", "Svc", TRUE) >>
      [] t = "*Ctrl" -> << Fld("Svc", "true", "Svc", TRUE),
                           Fld("Opt", "false", "Cache", TRUE),
                           Fld("hidden", "true", "Svc", FALSE),
                           Fld("ByName", "x", "*SvcA", TRUE),
                           Fld("Named", "x", "Svc", TRUE),
                           Fld("Conc", "true", "*SvcA", TRUE),
                           Fld("ConcOpt", "false", "*SvcA", TRUE),
                           Fld("Items", "", "[]string", TRUE),
                           Fld("Index", "", "map[string]int", TRUE),
                           Fld("Tags", "tags", "[]string", TRUE) >>

FieldNames(t) == { FieldsOf(t)[k].name : k \in 1..Len(FieldsOf(t)) }

\* ------------------------------------------------------------------- state
VARIABLES
    typeToObjectMap,   \* Container.typeToObjectMap : type -> instance (Nil: no entry)
    nameToObjMap,      \* Container.nameToObjMap    : name -> instance (Nil: no entry)
    fatalErrors,       \* Container.fatalErrors     : the names of the rejected duplicates
    fieldVal,          \* the struct fields of every instance
    last,              \* the most recent call: operation, name or type argument, instance, return value
    trace,             \* hooks and injectInternal calls made by the most recent call, in order
    logs,              \* diagnostics emitted by the most recent call
    observed,          \* per instance: every hook / injectInternal call made on it so far
    registered,        \* the instances whose registration was accepted, in order
    explicitNames,     \* the names under which a ProvideByName was accepted
    calls,             \* number of API calls made
    pc,                \* per goroutine: where it is in the call it makes
    invoked,           \* per goroutine: the call it makes
    hookCall,          \* per goroutine: the container call made by the hook it is running
    mutex,             \* Container.mutex (sync.RWMutex): the writer and the readers holding it
    todo1,             \* StartUp in progress: the Type Index keys its first loop has yet to visit
    todo2,             \* StartUp in progress: the Type Index keys its second loop has yet to visit
    ipc,               \* per goroutine: where it is in its Instance() call
    onceDone,          \* _once.done
    onceM,             \* _once.m: the goroutine holding it (Nil: unlocked)
    instance,          \* _instance: 0 for the nil pointer, k for the k-th Container constructed
    made,              \* number of Container values constructed so far
    got                \* per goroutine: the pointers its Instance() calls returned, in order

\* The state of the goroutines that call the container concurrently.
lockVars == << pc, invoked, hookCall, mutex, todo1, todo2 >>

\* The state of the package-level singleton.
onceVars == << ipc, onceDone, onceM, instance, made, got >>

\* The state of the container and what was observed of it.
containerVars == << typeToObjectMap, nameToObjMap, fatalErrors, fieldVal, last, trace,
                    logs, observed, registered, explicitNames, calls >>

vars == << containerVars, lockVars, onceVars >>

\* Container.serviceMap / controllerMap: created empty by Instance() and
\* written by nothing in the package.
serviceMap == [t \in Types |-> Nil]
controllerMap == [t \in Types |-> Nil]

Ev(e, i) == [ev |-> e, obj |-> i]
Log(lv, kind, i, f) == [level |-> lv, kind |-> kind, obj |-> i, field |-> f]
Call(op, arg, obj, ret) == [op |-> op, arg |-> arg, obj |-> obj, ret |-> ret]

\* The hook events of instance i among the hooks hs, if its type implements them.
Hook(h, i) == IF h \in HooksOf(TypeOf(i)) THEN << Ev(h, i) >> ELSE << >>

RECURSIVE EventsOf(_, _)
\* The names of the events of trace tr that concern instance i, in order.
EventsOf(tr, i) ==
    IF tr = << >> THEN << >>
    ELSE (IF Head(tr).obj = i THEN << Head(tr).ev >> ELSE << >>) \o EventsOf(Tail(tr), i)

Observe(tr) == [i \in Instances |-> observed[i] \o EventsOf(tr, i)]

\* Instance(): the container right after construction; the caller's beans
\* have their fields either all unset or all set by the caller.
Init ==
    /\ typeToObjectMap = [t \in Types |-> Nil]
    /\ nameToObjMap = [n \in Names \cup {SimpleName(t) : t \in Types} |-> Nil]
    /\ fatalErrors = << >>
    /\ \E p \in {Nil, Ext} :
         fieldVal = [i \in Instances |->
                       [f \in FieldNames(TypeOf(i)) |-> IF i = "c1" THEN p ELSE Nil]]
    /\ last = Call("Instance", "", Nil, "ok")
    /\ trace = << >>
    /\ logs = {}
    /\ observed = [i \in Instances |-> << >>]
    /\ registered = << >>
    /\ explicitNames = {}
    /\ calls = 0
    /\ pc = [th \in Threads |-> "idle"]
    /\ invoked = [th \in Threads |-> Call("", "", Nil, "")]
    /\ hookCall = [th \in Threads |-> Call("", "", Nil, "")]
    /\ mutex = [writer |-> Nil, readers |-> {}]
    /\ todo1 = {}
    /\ todo2 = {}
    /\ ipc = [th \in Threads |-> "idle"]
    /\ onceDone = FALSE
    /\ onceM = Nil
    /\ instance = 0
    /\ made = 0
    /\ got = [th \in Threads |-> << >>]

\* The descriptors of the fields of every bean type, by field name.
FieldTable ==
    [t \in Types |->
        [f \in FieldNames(t) |->
            CHOOSE fd \in { FieldsOf(t)[k] : k \in 1..Len(FieldsOf(t)) } : fd.name = f]]

\* The descriptor of field f of type t.
FieldOf(t, f) == FieldTable[t][f]

\* CanSet(): the struct is reached through a pointer and the field is exported.
CanSet(t, fd) == Kind(t) = "ptr" /\ fd.exported

\* ApplyDefaultProviders without the IsNil tests: the field is always replaced.
ApplyDefaultProvidersAlways(fd, cur) ==
    IF Kind(fd.ftype) \in {"map", "slice"} THEN Empty ELSE cur

\* ApplyDefaultProviders: a nil map or slice becomes a fresh empty one.
ApplyDefaultProviders(fd, cur) ==
    IF Kind(fd.ftype) \in {"map", "slice"} /\ cur = Nil THEN Empty ELSE cur

\* initBasicFields: the fields of instance i after default seeding.
InitBasicFields(i, fv) ==
    LET t == TypeOf(i) IN
    IF Kind(t) # "ptr" THEN fv[i]
    ELSE [f \in FieldNames(t) |->
            LET fd == FieldOf(t, f) IN
            IF ~CanSet(t, fd) THEN fv[i][f]
            ELSE IF fd.tag # "" THEN fv[i][f]
            ELSE ApplyDefaultProviders(fd, fv[i][f])]

\* ProvideTypeMap without the `exists` test of line 74: the last instance wins.
ProvideTypeMapOverwrite(tm, i) == [tm EXCEPT ![TypeOf(i)] = i]

\* Provide, lines 73-78: the Type Index after Provide(i) of a non-nil i.
ProvideTypeMap(tm, i) ==
    IF tm[TypeOf(i)] # Nil THEN tm ELSE [tm EXCEPT ![TypeOf(i)] = i]

\* ProvideNameMap that rebinds a default name which is already taken.
ProvideNameMapOverwrite(nm, i) == [nm EXCEPT ![SimpleName(TypeOf(i))] = i]

\* Provide, lines 80-93: the Name Index after an accepted Provide(i).
ProvideNameMap(nm, i) ==
    LET beanName == SimpleName(TypeOf(i)) IN
    IF nm[beanName] # Nil THEN nm ELSE [nm EXCEPT ![beanName] = i]

\* ProvideNil that treats a nil instance as a fatal registration error.
ProvideNilFatal ==
    /\ trace' = << >>
    /\ logs' = {}
    /\ fatalErrors' = Append(fatalErrors, "")
    /\ UNCHANGED << typeToObjectMap, nameToObjMap, fieldVal, observed, registered >>

\* Provide, lines 61-63: a nil instance returns at once.
ProvideNil ==
    /\ trace' = << >>
    /\ logs' = {}
    /\ UNCHANGED << typeToObjectMap, nameToObjMap, fatalErrors, fieldVal, observed, registered >>

\* Container.Provide(instance)
Provide(i) ==
    /\ calls < MaxCalls
    /\ calls' = calls + 1
    /\ last' = Call("Provide", "", i, "ok")
    /\ UNCHANGED explicitNames
    /\ IF i = Nil
       THEN ProvideNil
       ELSE LET t == TypeOf(i)
                ptrWarn == IF Kind(t) # "ptr" THEN {Log("warn", "notPointer", i, "")} ELSE {}
            IN
            /\ UNCHANGED fatalErrors
            /\ fieldVal' = [fieldVal EXCEPT ![i] = InitBasicFields(i, fieldVal)]
            /\ typeToObjectMap' = ProvideTypeMap(typeToObjectMap, i)
            /\ IF typeToObjectMap[t] # Nil
               THEN /\ trace' = << >>
                    /\ logs' = ptrWarn \cup {Log("warn", "duplicateType", i, "")}
                    /\ UNCHANGED << nameToObjMap, observed, registered >>
               ELSE /\ nameToObjMap' = ProvideNameMap(nameToObjMap, i)
                    /\ trace' = Hook("OnProvideAfter", i)
                    /\ logs' = ptrWarn \cup
                               (IF nameToObjMap[SimpleName(t)] # Nil
                                THEN {Log("warn", "duplicateDefaultName", i, "")} ELSE {})
                    /\ observed' = Observe(trace')
                    /\ registered' = Append(registered, i)

\* ProvideByNameCheck without the duplicate-name test of line 117.
ProvideByNameCheckNoDuplicate(nm, name, i) ==
    IF i = Nil \/ IsBlank(name) THEN "invalid" ELSE "ok"

\* ProvideByNameCheck comparing the name with "" without strings.TrimSpace.
ProvideByNameCheckNoTrim(nm, name, i) ==
    IF i = Nil \/ name = "" THEN "invalid"
    ELSE IF nm[name] # Nil THEN "duplicate"
    ELSE "ok"

\* ProvideByNameCheck with the duplicate-name test ahead of the argument test.
ProvideByNameCheckDuplicateFirst(nm, name, i) ==
    IF nm[name] # Nil THEN "duplicate"
    ELSE IF i = Nil \/ IsBlank(name) THEN "invalid"
    ELSE "ok"

\* ProvideByNameCheck that rejects only a name given by an earlier
\* ProvideByName, so that a default name inserted by Provide can be rebound.
ProvideByNameCheckExplicitOnly(nm, name, i) ==
    IF i = Nil \/ IsBlank(name) THEN "invalid"
    ELSE IF name \in explicitNames THEN "duplicate"
    ELSE "ok"

\* ProvideByName, lines 113-122: "invalid", "duplicate" or "ok".
ProvideByNameCheck(nm, name, i) ==
    IF i = Nil \/ IsBlank(name) THEN "invalid"
    ELSE IF nm[name] # Nil THEN "duplicate"
    ELSE "ok"

\* ProvideByNameTypeMap that keeps an existing entry, as Provide does.
ProvideByNameTypeMapKeepFirst(tm, i) ==
    IF tm[TypeOf(i)] # Nil THEN tm ELSE [tm EXCEPT ![TypeOf(i)] = i]

\* ProvideByName, line 131: the Type Index after an accepted ProvideByName.
ProvideByNameTypeMap(tm, i) == [tm EXCEPT ![TypeOf(i)] = i]

\* A rejection that comes after initBasicFields and the hook: the rejected
\* instance is seeded and sees OnProvideAfter.
ProvideByNameDuplicateLate(name, i) ==
    /\ fatalErrors' = Append(fatalErrors, name)
    /\ fieldVal' = [fieldVal EXCEPT ![i] = InitBasicFields(i, fieldVal)]
    /\ trace' = Hook("OnProvideAfter", i)
    /\ logs' = {Log("error", "duplicateName", i, "")}
    /\ observed' = Observe(trace')
    /\ UNCHANGED << typeToObjectMap, nameToObjMap, registered, explicitNames >>

\* ProvideByName, lines 117-122: the name is taken; the error is logged,
\* appended to fatalErrors and returned.
ProvideByNameDuplicate(name, i) ==
    /\ fatalErrors' = Append(fatalErrors, name)
    /\ trace' = << >>
    /\ logs' = {Log("error", "duplicateName", i, "")}
    /\ UNCHANGED << typeToObjectMap, nameToObjMap, fieldVal, observed, registered,
                    explicitNames >>

\* Container.ProvideByName(name, instance)
ProvideByName(name, i) ==
    /\ calls < MaxCalls
    /\ calls' = calls + 1
    /\ LET chk == ProvideByNameCheck(nameToObjMap, name, i) IN
       /\ last' = Call("ProvideByName", name, i, IF chk = "ok" THEN "ok" ELSE "error")
       /\ CASE chk = "invalid" ->
                 /\ trace' = << >>
                 /\ logs' = {}
                 /\ UNCHANGED << typeToObjectMap, nameToObjMap, fatalErrors, fieldVal,
                                 observed, registered, explicitNames >>
            [] chk = "duplicate" -> ProvideByNameDuplicate(name, i)
            [] chk = "ok" ->
                 /\ fieldVal' = [fieldVal EXCEPT ![i] = InitBasicFields(i, fieldVal)]
                 /\ typeToObjectMap' = ProvideByNameTypeMap(typeToObjectMap, i)
                 /\ nameToObjMap' = [nameToObjMap EXCEPT ![name] = i]
                 /\ trace' = Hook("OnProvideAfter", i)
                 /\ logs' = IF Kind(TypeOf(i)) # "ptr"
                            THEN {Log("warn", "notPointer", i, "")} ELSE {}
                 /\ observed' = Observe(trace')
                 /\ registered' = Append(registered, i)
                 /\ explicitNames' = explicitNames \cup {name}
                 /\ UNCHANGED fatalErrors

\* The orders in which a `range` loop may visit the keys S of a map.
Perms(S) ==
    { s \in [1..Cardinality(S) -> S] : \A a, b \in 1..Cardinality(S) : a # b => s[a] # s[b] }

\* The keys of the Type Index.
Beans(tm) == { t \in Types : tm[t] # Nil }

\* m[name] with the comma-ok idiom: Nil when the map has no such key.
Lookup(nm, name) == IF name \in DOMAIN nm THEN nm[name] ELSE Nil

RECURSIVE Candidates(_, _, _)
\* injectInternal, lines 284-294: the instances met by one scan of the Type
\* Index (visiting its keys in the order scan) whose type implements iface.
Candidates(tm, scan, iface) ==
    IF scan = << >> THEN << >>
    ELSE (IF Implements(TypeOf(tm[Head(scan)]), iface) THEN << tm[Head(scan)] >> ELSE << >>)
         \o Candidates(tm, Tail(scan), iface)

\* Interface resolution that treats several implementations as a failure.
InjectIfaceRejectAmbiguous(i, fd, cur, candidates) ==
    IF Len(candidates) = 1
    THEN [val |-> candidates[1], logs |-> {Log("debug", "injected", i, fd.name)}]
    ELSE IF Len(candidates) > 1
    THEN [val |-> cur, logs |-> {Log("warn", "ambiguous", i, fd.name)}]
    ELSE [val |-> cur, logs |-> {Log("error", "notFound", i, fd.name)}]

\* Interface resolution that assigns only when the tag is "true".
InjectIfaceMandatoryOnly(i, fd, cur, candidates) ==
    IF fd.tag = "true" /\ Len(candidates) >= 1
    THEN [val |-> candidates[1], logs |-> {Log("debug", "injected", i, fd.name)}]
    ELSE [val |-> cur, logs |-> {Log("info", "optionalMiss", i, fd.name)}]

\* injectInternal, lines 283-314: a by-type field of interface type, when the
\* scan of the Type Index has collected the list candidates.
InjectIface(i, fd, cur, candidates) ==
    LET mandatory == fd.tag = "true" IN
    IF Len(candidates) >= 1
    THEN [val |-> candidates[1],
          logs |-> IF Len(candidates) > 1
                   THEN {Log("warn", "ambiguous", i, fd.name)}
                   ELSE {Log("debug", "injected", i, fd.name)}]
    ELSE IF mandatory
    THEN [val |-> cur, logs |-> {Log("error", "notFound", i, fd.name)}]
    ELSE [val |-> cur, logs |-> {Log("info", "optionalMiss", i, fd.name)}]

\* Concrete by-type resolution that takes the bean from the Type Index.
InjectConcreteViaTypeIndex(nm, i, fd, cur) ==
    LET obj == typeToObjectMap[fd.ftype] IN
    IF obj # Nil
    THEN [val |-> obj, logs |-> {Log("debug", "injected", i, fd.name)}]
    ELSE [val |-> cur, logs |-> {Log("error", "notFound", i, fd.name)}]

\* Concrete by-type resolution that assigns only when the tag is "true".
InjectConcreteMandatoryOnly(nm, i, fd, cur) ==
    LET obj == Lookup(nm, SimpleName(fd.ftype)) IN
    IF fd.tag = "true" /\ obj # Nil /\ AssignableTo(TypeOf(obj), fd.ftype)
    THEN [val |-> obj, logs |-> {Log("debug", "injected", i, fd.name)}]
    ELSE IF fd.tag = "true"
    THEN [val |-> cur, logs |-> {Log("error", "notFound", i, fd.name)}]
    ELSE [val |-> cur, logs |-> {Log("info", "optionalMiss", i, fd.name)}]

\* injectInternal, lines 315-341: a by-type field of concrete type, looked up
\* in the Name Index under the field type's simple name.
InjectConcrete(nm, i, fd, cur) ==
    LET typeName == SimpleName(fd.ftype)
        obj == Lookup(nm, typeName)
        mandatory == fd.tag = "true"
    IN
    IF obj # Nil
    THEN IF AssignableTo(TypeOf(obj), fd.ftype)
         THEN [val |-> obj, logs |-> {Log("debug", "injected", i, fd.name)}]
         ELSE IF mandatory
         THEN [val |-> cur, logs |-> {Log("error", "mismatch", i, fd.name)}]
         ELSE [val |-> cur, logs |-> {Log("info", "optionalMismatch", i, fd.name)}]
    ELSE IF mandatory
    THEN [val |-> cur, logs |-> {Log("error", "notFound", i, fd.name)}]
    ELSE [val |-> cur, logs |-> {Log("info", "optionalMiss", i, fd.name)}]

\* By-name resolution that zeroes the field when the name is unknown.
InjectByNameZeroOnMiss(nm, i, fd, cur) ==
    LET obj == Lookup(nm, fd.tag) IN
    IF obj # Nil /\ AssignableTo(TypeOf(obj), fd.ftype)
    THEN [val |-> obj, logs |-> {Log("debug", "injected", i, fd.name)}]
    ELSE [val |-> Nil, logs |-> {Log("error", "notFound", i, fd.name)}]

\* By-name resolution that looks the bean up under the simple name of the
\* field's type (as the by-type branch does) instead of under the tag.
InjectByNameUsesTypeName(nm, i, fd, cur) ==
    LET obj == Lookup(nm, SimpleName(fd.ftype)) IN
    IF obj # Nil /\ AssignableTo(TypeOf(obj), fd.ftype)
    THEN [val |-> obj, logs |-> {Log("debug", "injected", i, fd.name)}]
    ELSE [val |-> cur, logs |-> {Log("error", "notFound", i, fd.name)}]

\* By-name resolution that assigns whatever the Name Index keeps under the
\* tag, without the compatibility test.
InjectByNameNoTypeCheck(nm, i, fd, cur) ==
    LET obj == Lookup(nm, fd.tag) IN
    IF obj # Nil
    THEN [val |-> obj, logs |-> {Log("debug", "injected", i, fd.name)}]
    ELSE [val |-> cur, logs |-> {Log("error", "notFound", i, fd.name)}]

\* injectInternal, lines 344-361: a by-name field.
InjectByName(nm, i, fd, cur) ==
    LET obj == Lookup(nm, fd.tag) IN
    IF obj # Nil
    THEN LET objType == TypeOf(obj)
             compatible == \/ AssignableTo(objType, fd.ftype)
                           \/ (Kind(fd.ftype) = "interface" /\ Implements(objType, fd.ftype))
         IN
         IF compatible
         THEN [val |-> obj, logs |-> {Log("debug", "injected", i, fd.name)}]
         ELSE [val |-> cur, logs |-> {Log("error", "mismatch", i, fd.name)}]
    ELSE [val |-> cur, logs |-> {Log("error", "notFound", i, fd.name)}]

\* A loop body that resets a field without a tag to its zero value instead
\* of passing over it (lines 258-263).
InjectFieldClearsUntagged(nm, i, fd, cur, candidates) ==
    IF fd.tag = "" THEN [val |-> Nil, logs |-> {}]
    ELSE IF ~CanSet(TypeOf(i), fd)
    THEN [val |-> cur, logs |-> {Log("error", "notSettable", i, fd.name)}]
    ELSE IF fd.tag \in {"true", "false"}
    THEN IF Kind(fd.ftype) = "interface"
         THEN InjectIface(i, fd, cur, candidates)
         ELSE InjectConcrete(nm, i, fd, cur)
    ELSE InjectByName(nm, i, fd, cur)

\* A loop body without the CanSet test of lines 264-267.
InjectFieldIgnoresCanSet(nm, i, fd, cur, candidates) ==
    IF fd.tag = "" THEN [val |-> cur, logs |-> {}]
    ELSE IF fd.tag \in {"true", "false"}
    THEN IF Kind(fd.ftype) = "interface"
         THEN InjectIface(i, fd, cur, candidates)
         ELSE InjectConcrete(nm, i, fd, cur)
    ELSE InjectByName(nm, i, fd, cur)

\* injectInternal, the body of the loop over the struct's fields (lines
\* 255-362): the value of field fd of instance i afterwards, and what is logged.
InjectField(nm, i, fd, cur, candidates) ==
    IF fd.tag = "" THEN [val |-> cur, logs |-> {}]
    ELSE IF ~CanSet(TypeOf(i), fd)
    THEN [val |-> cur, logs |-> {Log("error", "notSettable", i, fd.name)}]
    ELSE IF fd.tag \in {"true", "false"}
    THEN IF Kind(fd.ftype) = "interface"
         THEN InjectIface(i, fd, cur, candidates)
         ELSE InjectConcrete(nm, i, fd, cur)
    ELSE InjectByName(nm, i, fd, cur)

\* The fields whose resolution scans the Type Index: the settable by-type
\* fields of interface type of the pointer beans held in the Type Index.
ScanSlots(tm) ==
    UNION { { << tm[t], FieldsOf(t)[k].name >> :
                k \in { j \in 1..Len(FieldsOf(t)) :
                          /\ FieldsOf(t)[j].tag \in {"true", "false"}
                          /\ FieldsOf(t)[j].exported
                          /\ Kind(FieldsOf(t)[j].ftype) = "interface" } } :
            t \in { u \in Beans(tm) : Kind(u) = "ptr" } }

\* The candidate lists one scan of the Type Index for iface can collect: one
\* per order in which the `range` loop may visit the map.
CandidateLists(tm, iface) == { Candidates(tm, scan, iface) : scan \in Perms(Beans(tm)) }

\* One collected candidate list for every field that scans.
Scans(tm) ==
    { sc \in [ScanSlots(tm) -> UNION { CandidateLists(tm, iface) : iface \in Ifaces }] :
        \A slot \in ScanSlots(tm) :
            sc[slot] \in CandidateLists(tm, FieldOf(TypeOf(slot[1]), slot[2]).ftype) }

\* The candidates collected for field f of instance i (none for other fields).
ScanOf(scans, i, f) == IF << i, f >> \in DOMAIN scans THEN scans[<< i, f >>] ELSE << >>

\* A field loop that gives up at the first tagged field it cannot set: the
\* fields declared after it are left alone.
InjectInternalStopsAtNonSettable(nm, fv, i, scans) ==
    LET t == TypeOf(i)
        idx(f) == CHOOSE k \in 1..Len(FieldsOf(t)) : FieldsOf(t)[k].name = f
        stopped(f) == \E k \in 1..(idx(f) - 1) :
                          FieldsOf(t)[k].tag # "" /\ ~CanSet(t, FieldsOf(t)[k])
    IN
    [f \in FieldNames(t) |->
        IF Kind(t) # "ptr" \/ stopped(f) THEN [val |-> fv[i][f], logs |-> {}]
        ELSE InjectField(nm, i, FieldOf(t, f), fv[i][f], ScanOf(scans, i, f))]

\* injectInternal(instance): the outcome for every field of instance i.
\* A bean that is not a pointer to a struct is left alone (lines 245-252).
InjectInternal(nm, fv, i, scans) ==
    LET t == TypeOf(i) IN
    [f \in FieldNames(t) |->
        IF Kind(t) # "ptr" THEN [val |-> fv[i][f], logs |-> {}]
        ELSE InjectField(nm, i, FieldOf(t, f), fv[i][f], ScanOf(scans, i, f))]

RECURSIVE InjectPass(_, _)
\* StartUp, lines 167-191: per bean, hook 2, injectInternal, hook 3.
InjectPass(tm, ord) ==
    IF ord = << >> THEN << >>
    ELSE LET i == tm[Head(ord)] IN
         Hook("OnInjectBefore", i) \o << Ev("inject", i) >> \o Hook("OnInjectAfter", i)
         \o InjectPass(tm, Tail(ord))

RECURSIVE CompleteFrom(_, _, _)
CompleteFrom(tm, ord, k) ==
    IF k > Len(ord) THEN << >>
    ELSE Hook("OnInjectComplete", tm[ord[k]]) \o CompleteFrom(tm, ord, k + 1)

\* A second loop that starts at the second entry.
CompletePassSkipsFirst(tm, ord) == CompleteFrom(tm, ord, 2)

RECURSIVE CompletePass(_, _)
\* StartUp, lines 194-199: hook 4 of every bean.
CompletePass(tm, ord) ==
    IF ord = << >> THEN << >>
    ELSE Hook("OnInjectComplete", tm[Head(ord)]) \o CompletePass(tm, Tail(ord))

RECURSIVE StartUpTraceInterleaved(_, _, _)
\* A single loop that fires hook 4 right after hook 3 of the same bean.
StartUpTraceInterleaved(tm, ord1, ord2) ==
    IF ord1 = << >> THEN << >>
    ELSE LET i == tm[Head(ord1)] IN
         Hook("OnInjectBefore", i) \o << Ev("inject", i) >> \o Hook("OnInjectAfter", i)
         \o Hook("OnInjectComplete", i) \o StartUpTraceInterleaved(tm, Tail(ord1), ord2)

\* A second loop that fires hook 4 twice for its first bean.
StartUpTraceRepeat(tm, ord1, ord2) ==
    InjectPass(tm, ord1)
    \o (IF ord2 = << >> THEN << >> ELSE CompletePass(tm, << Head(ord2) >>))
    \o CompletePass(tm, ord2)

\* StartUp, lines 166-199: everything a successful StartUp calls, in order,
\* when its two loops visit the Type Index in the orders ord1 and ord2.
StartUpTrace(tm, ord1, ord2) == InjectPass(tm, ord1) \o CompletePass(tm, ord2)

\* The gate of line 159 written `> 1`.
HasFatalOffByOne(fe) == Len(fe) > 1

\* StartUp, line 159: the fatal-error gate.
HasFatal(fe) == Len(fe) > 0

\* Container.StartUp()
StartUp ==
    /\ calls < MaxCalls
    /\ calls' = calls + 1
    /\ UNCHANGED << typeToObjectMap, nameToObjMap, fatalErrors, registered, explicitNames >>
    /\ IF HasFatal(fatalErrors)
       THEN /\ last' = Call("StartUp", "", Nil, "error")
            /\ trace' = << >>
            /\ logs' = {Log("error", "fatal", Nil, "")}
            /\ UNCHANGED << fieldVal, observed >>
       ELSE /\ last' = Call("StartUp", "", Nil, "ok")
            /\ \E scans \in Scans(typeToObjectMap) :
                 LET held == { typeToObjectMap[t] : t \in Beans(typeToObjectMap) }
                     res == [i \in held |-> InjectInternal(nameToObjMap, fieldVal, i, scans)]
                 IN
                 /\ fieldVal' = [i \in Instances |->
                                   IF i \in held
                                   THEN [f \in FieldNames(TypeOf(i)) |-> res[i][f].val]
                                   ELSE fieldVal[i]]
                 /\ logs' = UNION { UNION { res[i][f].logs : f \in FieldNames(TypeOf(i)) } :
                                    i \in held }
            /\ \E ord1 \in Perms(Beans(typeToObjectMap)),
                  ord2 \in Perms(Beans(typeToObjectMap)) :
                 trace' = StartUpTrace(typeToObjectMap, ord1, ord2)
            /\ observed' = Observe(trace')

\* An interface lookup that returns the first bean the scan meets without
\* testing that its type implements T.
GetByIfaceAnyBean(tm, T, scan) ==
    IF Len(scan) >= 1 THEN tm[scan[1]] ELSE Nil

\* GetObjectByType[T](), lines 376-413: T an interface; the Type Index is
\* scanned in the order scan, then serviceMap and controllerMap (both empty).
GetByIface(tm, T, scan) ==
    LET found == Candidates(tm, scan, T) IN
    IF Len(found) >= 1 THEN found[1] ELSE Nil

\* GetObjectByType[T](), lines 415-432: T a concrete type.
GetByType(tm, T) ==
    IF serviceMap[T] # Nil THEN serviceMap[T]
    ELSE IF controllerMap[T] # Nil THEN controllerMap[T]
    ELSE tm[T]

\* GetObjectByType[T]()
GetObjectByType(T) ==
    /\ calls < MaxCalls
    /\ calls' = calls + 1
    /\ UNCHANGED << typeToObjectMap, nameToObjMap, fatalErrors, fieldVal, observed, registered,
                    explicitNames >>
    /\ trace' = << >>
    /\ IF Kind(T) = "interface"
       THEN \E scan \in Perms(Beans(typeToObjectMap)) :
              last' = Call("GetObjectByType", T, Nil, GetByIface(typeToObjectMap, T, scan))
       ELSE last' = Call("GetObjectByType", T, Nil, GetByType(typeToObjectMap, T))
    /\ logs' = IF last'.ret = Nil THEN {Log("error", "notFound", Nil, "")} ELSE {}

\* One caller: the calls are made one after another.
Next ==
    \/ \E i \in Instances \cup {Nil} : Provide(i) /\ UNCHANGED << lockVars, onceVars >>
    \/ \E name \in Names, i \in Instances \cup {Nil} :
          ProvideByName(name, i) /\ UNCHANGED << lockVars, onceVars >>
    \/ StartUp /\ UNCHANGED << lockVars, onceVars >>
    \/ \E T \in Types \cup Ifaces : GetObjectByType(T) /\ UNCHANGED << lockVars, onceVars >>

Spec == Init /\ [][Next]_vars

\* ------------------------------------------------- goroutines and c.mutex
\* The calls the goroutines make, one each.
ThreadCalls ==
    { Call("Provide", "", i, "") : i \in Instances }
    \cup { Call("ProvideByName", "x", "a2", ""),
           Call("StartUp", "", Nil, ""),
           Call("GetObjectByType", "*SvcA", Nil, ""),
           Call("GetObjectByType", "Svc", Nil, "") }

\* The goroutine is inside the body of its call, between Lock/RLock
\* returning and the deferred Unlock/RUnlock.
InBody(th) == pc[th] \in {"locked", "insert", "pass1", "pass2", "hook"}

\* A writer that does not take the mutex at all.
CanLockNoWait(m) == TRUE

\* mutex.Lock() that does not wait for the readers to leave.
CanLockIgnoresReaders(m) == m.writer = Nil

\* c.mutex.Lock() can return: no writer and no reader holds the mutex.
CanLock(m) == m.writer = Nil /\ m.readers = {}

\* mutex.RLock() that does not wait for the writer to leave.
CanRLockNoWait(m) == TRUE

\* c.mutex.RLock() can return: no writer holds the mutex.
CanRLock(m) == m.writer = Nil

\* A goroutine calls a method of the container.
Invoke(th, c) ==
    /\ pc[th] = "idle"
    /\ invoked' = [invoked EXCEPT ![th] = c]
    /\ pc' = [pc EXCEPT ![th] = "waiting"]
    /\ UNCHANGED << typeToObjectMap, nameToObjMap, fatalErrors, fieldVal, last, trace, logs,
                    observed, registered, explicitNames, calls, hookCall, mutex, todo1,
                    todo2 >>

\* The call whose Lock or RLock goroutine th has reached: the call it made
\* itself or, when a hook of that call is running, the call the hook makes.
Pending(th) == IF pc[th] = "hook" THEN hookCall[th] ELSE invoked[th]

\* c.mutex.Lock() at the head of Provide, ProvideByName and StartUp.
Lock(th) ==
    /\ pc[th] \in {"waiting", "hook"}
    /\ Pending(th).op \in {"Provide", "ProvideByName", "StartUp"}
    /\ CanLock(mutex)
    /\ mutex' = [mutex EXCEPT !.writer = th]
    /\ pc' = [pc EXCEPT ![th] = IF pc[th] = "hook" THEN "nested" ELSE "locked"]
    /\ UNCHANGED << typeToObjectMap, nameToObjMap, fatalErrors, fieldVal, last, trace, logs,
                    observed, registered, explicitNames, calls, invoked, hookCall, todo1, todo2 >>

\* c.mutex.RLock() at the head of GetObjectByType.
RLock(th) ==
    /\ pc[th] \in {"waiting", "hook"}
    /\ Pending(th).op = "GetObjectByType"
    /\ CanRLock(mutex)
    /\ mutex' = [mutex EXCEPT !.readers = @ \cup {th}]
    /\ pc' = [pc EXCEPT ![th] = IF pc[th] = "hook" THEN "nested" ELSE "locked"]
    /\ UNCHANGED << typeToObjectMap, nameToObjMap, fatalErrors, fieldVal, last, trace, logs,
                    observed, registered, explicitNames, calls, invoked, hookCall, todo1, todo2 >>

\* defer c.mutex.Unlock(): the call returns.
Unlock(th) ==
    /\ mutex' = [mutex EXCEPT !.writer = Nil]
    /\ pc' = [pc EXCEPT ![th] = "done"]
    /\ UNCHANGED << invoked, hookCall >>

\* defer c.mutex.RUnlock(): the call returns.
RUnlock(th) ==
    /\ mutex' = [mutex EXCEPT !.readers = @ \ {th}]
    /\ pc' = [pc EXCEPT ![th] = "done"]
    /\ UNCHANGED << invoked, hookCall >>

\* Provide, lines 61-77, run by goroutine th under the lock: a nil instance
\* and an instance of a type the Type Index already holds return here; any
\* other instance has its fields seeded and goes on to line 78.
ProvideCheck(th) ==
    /\ pc[th] = "locked" /\ invoked[th].op = "Provide"
    /\ LET i == invoked[th].obj IN
       IF i = Nil \/ typeToObjectMap[TypeOf(i)] # Nil
       THEN /\ Provide(i)
            /\ Unlock(th)
       ELSE /\ fieldVal' = [fieldVal EXCEPT ![i] = InitBasicFields(i, fieldVal)]
            /\ pc' = [pc EXCEPT ![th] = "insert"]
            /\ UNCHANGED << typeToObjectMap, nameToObjMap, fatalErrors, last, trace, logs,
                            observed, registered, explicitNames, calls, invoked, hookCall, mutex >>
    /\ UNCHANGED << todo1, todo2 >>

\* Provide, lines 78-102, run by goroutine th under the lock: the Type Index
\* and Name Index writes and hook 1.
ProvideInsert(th) ==
    /\ pc[th] = "insert"
    /\ calls < MaxCalls
    /\ calls' = calls + 1
    /\ LET i == invoked[th].obj
           t == TypeOf(i)
       IN
       /\ last' = Call("Provide", "", i, "ok")
       /\ typeToObjectMap' = [typeToObjectMap EXCEPT ![t] = i]
       /\ nameToObjMap' = ProvideNameMap(nameToObjMap, i)
       /\ trace' = Hook("OnProvideAfter", i)
       /\ logs' = (IF Kind(t) # "ptr" THEN {Log("warn", "notPointer", i, "")} ELSE {})
                  \cup (IF nameToObjMap[SimpleName(t)] # Nil
                        THEN {Log("warn", "duplicateDefaultName", i, "")} ELSE {})
       /\ observed' = Observe(trace')
       /\ registered' = Append(registered, i)
    /\ Unlock(th)
    /\ UNCHANGED << fatalErrors, fieldVal, explicitNames, todo1, todo2 >>

\* The body of ProvideByName, run by goroutine th under the lock.
LockedProvideByName(th) ==
    /\ pc[th] = "locked" /\ invoked[th].op = "ProvideByName"
    /\ ProvideByName(invoked[th].arg, invoked[th].obj)
    /\ Unlock(th)
    /\ UNCHANGED << todo1, todo2 >>

\* The body of GetObjectByType, run by goroutine th under the read lock.
LockedGetObjectByType(th) ==
    /\ pc[th] = "locked" /\ invoked[th].op = "GetObjectByType"
    /\ GetObjectByType(invoked[th].arg)
    /\ RUnlock(th)
    /\ UNCHANGED << todo1, todo2 >>

\* StartUp, lines 155-164: the fatal-error gate; a refused StartUp returns,
\* an admitted one is about to enter its first loop.
StartUpBegin(th) ==
    /\ pc[th] = "locked" /\ invoked[th].op = "StartUp"
    /\ UNCHANGED << typeToObjectMap, nameToObjMap, fatalErrors, fieldVal, observed, registered,
                    explicitNames >>
    /\ trace' = << >>
    /\ IF HasFatal(fatalErrors)
       THEN /\ calls < MaxCalls
            /\ calls' = calls + 1
            /\ last' = Call("StartUp", "", Nil, "error")
            /\ logs' = {Log("error", "fatal", Nil, "")}
            /\ Unlock(th)
            /\ UNCHANGED << todo1, todo2 >>
       ELSE /\ logs' = {}
            /\ todo1' = Beans(typeToObjectMap)
            /\ todo2' = Beans(typeToObjectMap)
            /\ pc' = [pc EXCEPT ![th] = "pass1"]
            /\ UNCHANGED << last, calls, mutex, invoked, hookCall >>

\* StartUp, lines 167-191: one iteration of the first loop, on the entry of
\* type t: hook 2, injectInternal, hook 3.
StartUpInject(th, t) ==
    /\ pc[th] = "pass1"
    /\ t \in todo1
    /\ LET i == typeToObjectMap[t] IN
       /\ \E scans \in Scans(typeToObjectMap) :
            LET res == InjectInternal(nameToObjMap, fieldVal, i, scans) IN
            /\ fieldVal' = [fieldVal EXCEPT ![i] = [f \in FieldNames(t) |-> res[f].val]]
            /\ logs' = logs \cup UNION { res[f].logs : f \in FieldNames(t) }
       /\ trace' = trace \o InjectPass(typeToObjectMap, << t >>)
       /\ observed' = Observe(InjectPass(typeToObjectMap, << t >>))
    /\ todo1' = todo1 \ {t}
    /\ pc' = [pc EXCEPT ![th] = IF todo1' = {} THEN "pass2" ELSE "pass1"]
    /\ UNCHANGED << typeToObjectMap, nameToObjMap, fatalErrors, last, registered, explicitNames,
                    calls, invoked, hookCall, mutex, todo2 >>

\* StartUp, lines 194-199: one iteration of the second loop: hook 4.
StartUpComplete(th, t) ==
    /\ pc[th] = "pass2"
    /\ t \in todo2
    /\ trace' = trace \o CompletePass(typeToObjectMap, << t >>)
    /\ observed' = Observe(CompletePass(typeToObjectMap, << t >>))
    /\ todo2' = todo2 \ {t}
    /\ UNCHANGED << typeToObjectMap, nameToObjMap, fatalErrors, fieldVal, last, logs, registered,
                    explicitNames, calls, pc, invoked, hookCall, mutex, todo1 >>

\* StartUp, lines 201-202: both loops are over; StartUp returns nil.
StartUpEnd(th) ==
    /\ pc[th] = "pass2"
    /\ todo2 = {}
    /\ calls < MaxCalls
    /\ calls' = calls + 1
    /\ last' = Call("StartUp", "", Nil, "ok")
    /\ Unlock(th)
    /\ UNCHANGED << typeToObjectMap, nameToObjMap, fatalErrors, fieldVal, trace, logs, observed,
                    registered, explicitNames, todo1, todo2 >>

\* The calls a hook makes on the container: one of each locking method.
ReentrantCalls ==
    { Call("Provide", "", "b1", ""),
      Call("ProvideByName", "x", "a2", ""),
      Call("StartUp", "", Nil, ""),
      Call("GetObjectByType", "Svc", Nil, "") }

\* A hook of the call goroutine th is in, invoked at lines 99-102, 138-141,
\* 178-181, 187-190 or 195-198, calls the container: the goroutine reaches
\* the Lock or RLock of call c while the deferred Unlock of its own call has
\* not run.
HookCalls(th, c) ==
    /\ hookCall' = [hookCall EXCEPT ![th] = c]
    /\ pc' = [pc EXCEPT ![th] = "hook"]
    /\ UNCHANGED << invoked, mutex >>

\* Provide, lines 78-102, when OnProvideAfter of the instance calls the
\* container: the index writes are made, the hook does not return.
ProvideHookCalls(th, c) ==
    /\ pc[th] = "insert"
    /\ "OnProvideAfter" \in HooksOf(TypeOf(invoked[th].obj))
    /\ calls < MaxCalls
    /\ calls' = calls + 1
    /\ LET i == invoked[th].obj
           t == TypeOf(i)
       IN
       /\ typeToObjectMap' = [typeToObjectMap EXCEPT ![t] = i]
       /\ nameToObjMap' = ProvideNameMap(nameToObjMap, i)
       /\ trace' = Hook("OnProvideAfter", i)
       /\ logs' = (IF Kind(t) # "ptr" THEN {Log("warn", "notPointer", i, "")} ELSE {})
                  \cup (IF nameToObjMap[SimpleName(t)] # Nil
                        THEN {Log("warn", "duplicateDefaultName", i, "")} ELSE {})
       /\ observed' = Observe(trace')
       /\ registered' = Append(registered, i)
    /\ HookCalls(th, c)
    /\ UNCHANGED << fatalErrors, fieldVal, last, explicitNames, todo1, todo2 >>

\* ProvideByName, lines 129-141, when OnProvideAfter of the accepted instance
\* calls the container.
ProvideByNameHookCalls(th, c) ==
    /\ pc[th] = "locked" /\ invoked[th].op = "ProvideByName"
    /\ ProvideByNameCheck(nameToObjMap, invoked[th].arg, invoked[th].obj) = "ok"
    /\ "OnProvideAfter" \in HooksOf(TypeOf(invoked[th].obj))
    /\ calls < MaxCalls
    /\ calls' = calls + 1
    /\ LET i == invoked[th].obj
           name == invoked[th].arg
       IN
       /\ fieldVal' = [fieldVal EXCEPT ![i] = InitBasicFields(i, fieldVal)]
       /\ typeToObjectMap' = ProvideByNameTypeMap(typeToObjectMap, i)
       /\ nameToObjMap' = [nameToObjMap EXCEPT ![name] = i]
       /\ trace' = Hook("OnProvideAfter", i)
       /\ logs' = IF Kind(TypeOf(i)) # "ptr"
                  THEN {Log("warn", "notPointer", i, "")} ELSE {}
       /\ observed' = Observe(trace')
       /\ registered' = Append(registered, i)
       /\ explicitNames' = explicitNames \cup {name}
    /\ HookCalls(th, c)
    /\ UNCHANGED << fatalErrors, last, todo1, todo2 >>

\* StartUp, lines 167-199, when hook h of the entry of type t calls the
\* container: OnInjectBefore before injectInternal has run on the bean,
\* OnInjectAfter after it, OnInjectComplete in the second loop.
StartUpHookCalls(th, t, h, c) ==
    /\ h \in HooksOf(t)
    /\ IF h = "OnInjectComplete"
       THEN pc[th] = "pass2" /\ t \in todo2
       ELSE pc[th] = "pass1" /\ t \in todo1 /\ h \in {"OnInjectBefore", "OnInjectAfter"}
    /\ LET i == typeToObjectMap[t] IN
       IF h = "OnInjectAfter"
       THEN /\ \E scans \in Scans(typeToObjectMap) :
                 LET res == InjectInternal(nameToObjMap, fieldVal, i, scans) IN
                 /\ fieldVal' = [fieldVal EXCEPT ![i] = [f \in FieldNames(t) |-> res[f].val]]
                 /\ logs' = logs \cup UNION { res[f].logs : f \in FieldNames(t) }
            /\ trace' = trace \o InjectPass(typeToObjectMap, << t >>)
            /\ observed' = Observe(InjectPass(typeToObjectMap, << t >>))
       ELSE /\ trace' = trace \o << Ev(h, i) >>
            /\ observed' = Observe(<< Ev(h, i) >>)
            /\ UNCHANGED << fieldVal, logs >>
    /\ HookCalls(th, c)
    /\ UNCHANGED << typeToObjectMap, nameToObjMap, fatalErrors, last, registered, explicitNames,
                    calls, todo1, todo2 >>

\* Goroutines calling the container concurrently.
NextLock ==
    \/ \E th \in Threads, c \in ThreadCalls : Invoke(th, c) /\ UNCHANGED onceVars
    \/ \E th \in Threads : Lock(th) /\ UNCHANGED onceVars
    \/ \E th \in Threads : RLock(th) /\ UNCHANGED onceVars
    \/ \E th \in Threads : ProvideCheck(th) /\ UNCHANGED onceVars
    \/ \E th \in Threads : ProvideInsert(th) /\ UNCHANGED onceVars
    \/ \E th \in Threads : LockedProvideByName(th) /\ UNCHANGED onceVars
    \/ \E th \in Threads : LockedGetObjectByType(th) /\ UNCHANGED onceVars
    \/ \E th \in Threads : StartUpBegin(th) /\ UNCHANGED onceVars
    \/ \E th \in Threads, t \in Types : StartUpInject(th, t) /\ UNCHANGED onceVars
    \/ \E th \in Threads, t \in Types : StartUpComplete(th, t) /\ UNCHANGED onceVars
    \/ \E th \in Threads : StartUpEnd(th) /\ UNCHANGED onceVars
    \/ \E th \in Threads, c \in ReentrantCalls : ProvideHookCalls(th, c) /\ UNCHANGED onceVars
    \/ \E th \in Threads, c \in ReentrantCalls :
          ProvideByNameHookCalls(th, c) /\ UNCHANGED onceVars
    \/ \E th \in Threads, t \in Types, c \in ReentrantCalls : \E h \in HooksOf(t) :
          StartUpHookCalls(th, t, h, c) /\ UNCHANGED onceVars

SpecLock == Init /\ [][NextLock]_vars

\* ------------------------------------------------- Instance() and _once
\* The test inside doSlow dropped: the function runs whenever the slow path
\* is taken.
NeedsInitUnchecked(done) == TRUE

\* sync.Once: the function has still to run.
NeedsInit(done) == ~done

\* A goroutine calls Instance().
InstanceCall(th) ==
    /\ ipc[th] = "idle"
    /\ Len(got[th]) < MaxInstanceCalls
    /\ ipc' = [ipc EXCEPT ![th] = "do"]
    /\ UNCHANGED << onceDone, onceM, instance, made, got >>

\* _once.Do, the fast path: a set done flag skips the function.
OnceDo(th) ==
    /\ ipc[th] = "do"
    /\ ipc' = [ipc EXCEPT ![th] = IF onceDone THEN "return" ELSE "slow"]
    /\ UNCHANGED << onceDone, onceM, instance, made, got >>

\* _once.Do, the slow path: take _once.m.
OnceLock(th) ==
    /\ ipc[th] = "slow"
    /\ onceM = Nil
    /\ onceM' = th
    /\ ipc' = [ipc EXCEPT ![th] = "locked"]
    /\ UNCHANGED << onceDone, instance, made, got >>

\* Instance, lines 41-50: under _once.m, the function literal constructs
\* the Container and stores it in _instance, if done is still unset.
OnceFunc(th) ==
    /\ ipc[th] = "locked"
    /\ IF NeedsInit(onceDone)
       THEN /\ made' = made + 1
            /\ instance' = made + 1
            /\ ipc' = [ipc EXCEPT ![th] = "ran"]
       ELSE /\ ipc' = [ipc EXCEPT ![th] = "unlock"]
            /\ UNCHANGED << instance, made >>
    /\ UNCHANGED << onceDone, onceM, got >>

\* _once.Do, the deferred calls: set done after the function ran, release
\* _once.m.
OnceUnlock(th) ==
    /\ ipc[th] \in {"ran", "unlock"}
    /\ onceDone' = (onceDone \/ ipc[th] = "ran")
    /\ onceM' = Nil
    /\ ipc' = [ipc EXCEPT ![th] = "return"]
    /\ UNCHANGED << instance, made, got >>

\* Instance, line 51: return _instance.
InstanceReturn(th) ==
    /\ ipc[th] = "return"
    /\ got' = [got EXCEPT ![th] = Append(@, instance)]
    /\ ipc' = [ipc EXCEPT ![th] = "idle"]
    /\ UNCHANGED << onceDone, onceM, instance, made >>

\* Goroutines calling Instance() concurrently and repeatedly.
NextOnce ==
    \/ \E th \in Threads : InstanceCall(th) /\ UNCHANGED << containerVars, lockVars >>
    \/ \E th \in Threads : OnceDo(th) /\ UNCHANGED << containerVars, lockVars >>
    \/ \E th \in Threads : OnceLock(th) /\ UNCHANGED << containerVars, lockVars >>
    \/ \E th \in Threads : OnceFunc(th) /\ UNCHANGED << containerVars, lockVars >>
    \/ \E th \in Threads : OnceUnlock(th) /\ UNCHANGED << containerVars, lockVars >>
    \/ \E th \in Threads : InstanceReturn(th) /\ UNCHANGED << containerVars, lockVars >>

SpecOnce == Init /\ [][NextOnce]_vars

\* ------------------------------------------------------- type correctness
Values == Instances \cup {Nil, Empty, Ext}

TypeOK ==
    /\ typeToObjectMap \in [Types -> Instances \cup {Nil}]
    /\ \A t \in Types : typeToObjectMap[t] # Nil => TypeOf(typeToObjectMap[t]) = t
    /\ \A n \in DOMAIN nameToObjMap : nameToObjMap[n] \in Instances \cup {Nil}
    /\ \A i \in Instances : \A f \in FieldNames(TypeOf(i)) : fieldVal[i][f] \in Values
    /\ calls \in 0..MaxCalls
    /\ Len(registered) <= calls

\* ------------------------------------------------------------ vocabulary
RECURSIVE Count(_, _)
\* The number of occurrences of e in the sequence s.
Count(s, e) ==
    IF s = << >> THEN 0 ELSE (IF Head(s) = e THEN 1 ELSE 0) + Count(Tail(s), e)

\* The position of the first occurrence of e in s (0: none).
Pos(s, e) ==
    IF \E p \in 1..Len(s) : s[p] = e
    THEN CHOOSE p \in 1..Len(s) : s[p] = e /\ \A q \in 1..(p - 1) : s[q] # e
    ELSE 0

\* The instances the Type Index holds.
Held == { typeToObjectMap[t] : t \in Beans(typeToObjectMap) }

\* The instances whose registration was accepted.
Accepted == { registered[k] : k \in 1..Len(registered) }

\* The first accepted instance of type t (Nil: none).
FirstOfType(t) ==
    IF \E k \in 1..Len(registered) : TypeOf(registered[k]) = t
    THEN registered[CHOOSE k \in 1..Len(registered) :
                      /\ TypeOf(registered[k]) = t
                      /\ \A j \in 1..(k - 1) : TypeOf(registered[j]) # t]
    ELSE Nil

AllHooks == {"OnProvideAfter", "OnInjectBefore", "OnInjectAfter", "OnInjectComplete"}

\* The most recent call was a StartUp that ran its two passes.
StartedUp == last.op = "StartUp" /\ last.ret = "ok"

\* The settable wiring-tagged fields of a pointer bean's type.
TaggedSettable(t) ==
    { f \in FieldNames(t) : FieldOf(t, f).tag # "" /\ Kind(t) = "ptr" /\ FieldOf(t, f).exported }

C2_TypeIndexKeepsFirst ==
    \A t \in Types :
        FirstOfType(t) # Nil =>
            /\ typeToObjectMap[t] = FirstOfType(t)
            /\ (last.op = "GetObjectByType" /\ last.arg = t) => last.ret = FirstOfType(t)

\* -------------------------------------------------------------------- C3
\* C3: a bean implementing all four hooks whose registration was accepted
\* once has, after the first successful StartUp that follows, observed exactly
\* OnProvideAfter, OnInjectBefore, its field resolution, OnInjectAfter,
\* OnInjectComplete, in that order and once each.
C3_HookOrder ==
    \A i \in Instances :
        ( /\ HooksOf(TypeOf(i)) = AllHooks
          /\ StartedUp
          /\ Count(registered, i) = 1
          /\ Count(observed[i], "OnInjectBefore") <= 1 )
        => observed[i] = << "OnProvideAfter", "OnInjectBefore", "inject",
                            "OnInjectAfter", "OnInjectComplete" >>

\* The same order, for the beans the Type Index still holds when StartUp runs,
\* together with hook 1 firing once per accepted registration, inside it.
C3_HookOrderHeld ==
    /\ \A i \in Instances :
          "OnProvideAfter" \in HooksOf(TypeOf(i))
             => Count(observed[i], "OnProvideAfter") = Count(registered, i)
    /\ \A i \in Held :
        ( /\ HooksOf(TypeOf(i)) = AllHooks
          /\ StartedUp
          /\ Count(registered, i) = 1
          /\ Count(observed[i], "OnInjectBefore") <= 1 )
        => observed[i] = << "OnProvideAfter", "OnInjectBefore", "inject",
                            "OnInjectAfter", "OnInjectComplete" >>

\* -------------------------------------------------------------------- C4
\* C4: in the calls made by one StartUp, every OnInjectBefore, injectInternal
\* and OnInjectAfter call, of every bean, precedes every OnInjectComplete
\* call; and every bean of the Type Index has been resolved, and has received
\* the OnInjectAfter it implements, by then.
C4_CompleteAfterAllInjected ==
    StartedUp =>
        /\ \A p, q \in 1..Len(trace) :
              (trace[p].ev = "OnInjectComplete" /\ trace[q].ev # "OnInjectComplete") => q < p
        /\ \A i \in Held :
              /\ Count(trace, Ev("inject", i)) = 1
              /\ "OnInjectAfter" \in HooksOf(TypeOf(i)) => Count(trace, Ev("OnInjectAfter", i)) = 1

\* A StartUp over two beans that both implement hook 3 and hook 4.
C4_Witness ==
    /\ StartedUp
    /\ \E i, j \in Held :
          /\ i # j
          /\ Count(trace, Ev("OnInjectAfter", i)) = 1 /\ Count(trace, Ev("OnInjectComplete", i)) = 1
          /\ Count(trace, Ev("OnInjectAfter", j)) = 1 /\ Count(trace, Ev("OnInjectComplete", j)) = 1

\* -------------------------------------------------------------------- C5
\* X's registration was accepted before Y's.
RegisteredBefore(x, y) ==
    Pos(registered, x) > 0 /\ Pos(registered, y) > 0 /\ Pos(registered, x) < Pos(registered, y)

\* C5 as stated: both passes of StartUp visit the beans in registration order.
C5_RegistrationOrder ==
    StartedUp =>
        \A x, y \in Held :
            RegisteredBefore(x, y) =>
                /\ {"OnInjectBefore"} \subseteq (HooksOf(TypeOf(x)) \cap HooksOf(TypeOf(y)))
                      => Pos(trace, Ev("OnInjectBefore", x)) < Pos(trace, Ev("OnInjectBefore", y))
                /\ {"OnInjectComplete"} \subseteq (HooksOf(TypeOf(x)) \cap HooksOf(TypeOf(y)))
                      => Pos(trace, Ev("OnInjectComplete", x)) < Pos(trace, Ev("OnInjectComplete", y))

\* C5 (amended): each pass of StartUp visits every bean of the Type Index
\* exactly once and no other bean; the order of the visits is not fixed.
C5_EachPassVisitsEachBeanOnce ==
    StartedUp =>
        /\ \A i \in Held :
              /\ Count(trace, Ev("inject", i)) = 1
              /\ \A h \in {"OnInjectBefore", "OnInjectAfter", "OnInjectComplete"} :
                    Count(trace, Ev(h, i)) = IF h \in HooksOf(TypeOf(i)) THEN 1 ELSE 0
        /\ \A p \in 1..Len(trace) : trace[p].obj \in Held

\* A StartUp whose first pass and second pass both ran against the
\* registration order.
C5_Witness ==
    /\ StartedUp
    /\ \E x, y \in Held :
          /\ RegisteredBefore(x, y)
          /\ Pos(trace, Ev("OnInjectBefore", x)) > Pos(trace, Ev("OnInjectBefore", y))
          /\ Pos(trace, Ev("OnInjectBefore", y)) > 0
          /\ Pos(trace, Ev("OnInjectComplete", x)) > Pos(trace, Ev("OnInjectComplete", y))
          /\ Pos(trace, Ev("OnInjectComplete", y)) > 0

\* -------------------------------------------------------------------- C6
\* C6: in a successful StartUp every bean whose registration was accepted is
\* resolved and receives the hooks 2, 3 and 4 it implements.
C6_EveryAcceptedBeanStarted ==
    StartedUp =>
        \A i \in Accepted :
            /\ Count(trace, Ev("inject", i)) >= 1
            /\ \A h \in HooksOf(TypeOf(i)) \ {"OnProvideAfter"} : Count(trace, Ev(h, i)) >= 1

\* -------------------------------------------------------------------- C7
\* C7 as stated: OnInjectComplete is invoked at most once on each bean over
\* the whole life of the container.
C7_CompleteAtMostOnceEver ==
    \A i \in Instances : Count(observed[i], "OnInjectComplete") <= 1

\* C7 (amended): one StartUp call invokes OnInjectComplete exactly once on
\* each bean of the Type Index that implements it, if the call succeeds, and
\* on no other bean; no other operation invokes it.  Every further
\* successful StartUp invokes it again.
C7_CompleteOncePerStartUp ==
    [][ \A i \in Instances :
          Count(observed'[i], "OnInjectComplete") =
              Count(observed[i], "OnInjectComplete")
              + (IF /\ last'.op = "StartUp" /\ last'.ret = "ok"
                    /\ i \in Held
                    /\ "OnInjectComplete" \in HooksOf(TypeOf(i))
                 THEN 1 ELSE 0)
      ]_vars

\* A second successful StartUp has completed a bean a second time.
C7_Witness ==
    /\ StartedUp
    /\ \E i \in Held : Count(observed[i], "OnInjectComplete") = 2

\* -------------------------------------------------------------------- C8
\* The beans of the Type Index whose concrete type implements iface.
Implementers(iface) == { j \in Held : Implements(TypeOf(j), iface) }

\* The settable fields of interface type tagged autowire:"true" of type t.
MandatoryIfaceFields(t) ==
    { f \in TaggedSettable(t) :
        FieldOf(t, f).tag = "true" /\ Kind(FieldOf(t, f).ftype) = "interface" }

\* C8: after a successful StartUp, a settable interface-typed field tagged
\* "true" of a bean of the Type Index holds a bean of the Type Index that
\* implements the interface whenever there is one (so the only one when there
\* is exactly one), and the ambiguity warning for the field was emitted
\* exactly when more than one bean implements the interface.
C8_MandatoryIfaceField ==
    StartedUp =>
        \A i \in Held : \A f \in MandatoryIfaceFields(TypeOf(i)) :
            LET impl == Implementers(FieldOf(TypeOf(i), f).ftype) IN
            /\ impl # {} => fieldVal[i][f] \in impl
            /\ (Log("warn", "ambiguous", i, f) \in logs) <=> (Cardinality(impl) > 1)

\* A field resolved among two implementing beans, with its warning.
C8_Witness ==
    /\ StartedUp
    /\ \E i \in Held : \E f \in MandatoryIfaceFields(TypeOf(i)) :
          /\ Cardinality(Implementers(FieldOf(TypeOf(i), f).ftype)) = 2
          /\ fieldVal[i][f] \in Implementers(FieldOf(TypeOf(i), f).ftype)
          /\ fieldVal[i][f] # i
          /\ Log("warn", "ambiguous", i, f) \in logs

\* -------------------------------------------------------------------- C9
\* Resolution of the settable tagged field fd misses: by type with no
\* matching bean, or by name with the name absent from the Name Index.
Misses(fd) ==
    IF fd.tag \in {"true", "false"}
    THEN IF Kind(fd.ftype) = "interface"
         THEN Implementers(fd.ftype) = {}
         ELSE Lookup(nameToObjMap, SimpleName(fd.ftype)) = Nil
    ELSE Lookup(nameToObjMap, fd.tag) = Nil

\* Resolution of the settable concrete-typed or by-name field fd finds, in
\* the Name Index, an instance that fits the field.
Hits(fd) ==
    LET key == IF fd.tag \in {"true", "false"} THEN SimpleName(fd.ftype) ELSE fd.tag
        obj == Lookup(nameToObjMap, key)
    IN
    /\ ~(fd.tag \in {"true", "false"} /\ Kind(fd.ftype) = "interface")
    /\ obj # Nil
    /\ AssignableTo(TypeOf(obj), fd.ftype)

\* C9: a successful StartUp leaves every settable tagged field whose
\* resolution misses at the value it had before the call (Nil if it was never
\* set), and still resolves the bean's other fields and the other beans:
\* every field that hits is assigned and every bean of the Type Index is
\* resolved.
C9_MissLeavesFieldAlone ==
    [][ (last'.op = "StartUp" /\ last'.ret = "ok") =>
          \A i \in Held :
            /\ Count(trace', Ev("inject", i)) = 1
            /\ \A f \in TaggedSettable(TypeOf(i)) :
                 LET fd == FieldOf(TypeOf(i), f) IN
                 /\ Misses(fd) => fieldVal'[i][f] = fieldVal[i][f]
                 /\ Hits(fd) => fieldVal'[i][f] =
                       Lookup(nameToObjMap,
                              IF fd.tag \in {"true", "false"} THEN SimpleName(fd.ftype) ELSE fd.tag)
      ]_vars

\* A bean with a by-name miss on a field the caller had set, an optional
\* by-type miss, and a further field that was resolved all the same.
C9_Witness ==
    /\ StartedUp
    /\ "c1" \in Held
    /\ Misses(FieldOf("*Ctrl", "ByName")) /\ fieldVal["c1"]["ByName"] = Ext
    /\ Misses(FieldOf("*Ctrl", "Opt")) /\ fieldVal["c1"]["Opt"] = Ext
    /\ Hits(FieldOf("*Ctrl", "Conc")) /\ fieldVal["c1"]["Conc"] \in Instances

\* ------------------------------------------------------------------- C10
\* C10: StartUp returns an error exactly when the Fatal Error Log is
\* non-empty when it is called, whatever the resolution errors it logs.
C10_StartUpErrorIffFatal ==
    [][ last'.op = "StartUp" => (last'.ret = "error" <=> Len(fatalErrors) > 0) ]_vars

\* A StartUp that returned success although it logged an unresolvable
\* mandatory field, a type mismatch and a non-settable tagged field.
C10_Witness ==
    /\ StartedUp
    /\ \E i \in Held : \E f, g, h \in FieldNames(TypeOf(i)) :
          /\ Log("error", "notFound", i, f) \in logs
          /\ Log("error", "mismatch", i, g) \in logs
          /\ Log("error", "notSettable", i, h) \in logs

\* ------------------------------------------------------------------- C11
\* C11: when a bean a of type *SvcA is registered by ProvideByName under "x"
\* and the bean c1 of type *Ctrl under "y", a's field Peer is tagged "y" and
\* c1's field ByName is tagged "x", both are the Type Index entries of their
\* types and no fatal error was recorded, then a StartUp returns success and
\* leaves a.Peer = c1 and c1.ByName = a, whatever order the beans were
\* visited in.
C11_CircularByName ==
    \A a \in {"a1", "a2"} :
        ( /\ last.op = "StartUp"
          /\ Len(fatalErrors) = 0
          /\ nameToObjMap["x"] = a /\ nameToObjMap["y"] = "c1"
          /\ typeToObjectMap["*SvcA"] = a /\ typeToObjectMap["*Ctrl"] = "c1" )
        => /\ last.ret = "ok"
           /\ fieldVal[a]["Peer"] = "c1"
           /\ fieldVal["c1"]["ByName"] = a

\* The two beans were registered under "x" and "y" and a StartUp has wired
\* each into the other.
C11_Witness ==
    /\ last.op = "StartUp" /\ last.ret = "ok"
    /\ nameToObjMap["x"] = "a1" /\ nameToObjMap["y"] = "c1"
    /\ explicitNames = {"x", "y"}
    /\ fieldVal["a1"]["Peer"] = "c1"
    /\ fieldVal["c1"]["ByName"] = "a1"

\* ------------------------------------------------------------------- C12
\* C12: a Provide of a nil instance changes nothing: the Type Index, the Name
\* Index, the Fatal Error Log and every bean's fields stay as they were, no
\* hook or injectInternal call is made and nothing is logged.  Those are all
\* the state the later Provide, ProvideByName, StartUp and GetObjectByType
\* calls read, so they behave as if the call had not been made.
C12_ProvideNilNoOp ==
    [][ (last'.op = "Provide" /\ last'.obj = Nil)
          => /\ UNCHANGED << typeToObjectMap, nameToObjMap, fatalErrors, fieldVal,
                             observed, registered, explicitNames >>
             /\ trace' = << >>
             /\ logs' = {}
      ]_vars

\* Provide(nil) has just returned on a container that holds a bean.
C12_Witness ==
    /\ last.op = "Provide" /\ last.obj = Nil
    /\ Held # {}
    /\ trace = << >>

\* ------------------------------------------------------------------- C13
\* C13: a Provide of a non-nil instance whose concrete type already has a
\* Type Index entry leaves the Type Index, the Name Index and the Fatal Error
\* Log as they were and makes no hook call (in particular no OnProvideAfter
\* on the discarded instance); GetObjectByType of that type still returns
\* the earlier instance.
C13_ProvideDuplicateType ==
    [][ ( /\ last'.op = "Provide" /\ last'.obj # Nil
          /\ typeToObjectMap[TypeOf(last'.obj)] # Nil )
          => /\ UNCHANGED << typeToObjectMap, nameToObjMap, fatalErrors >>
             /\ trace' = << >>
             /\ observed' = observed
             /\ GetByType(typeToObjectMap', TypeOf(last'.obj))
                   = typeToObjectMap[TypeOf(last'.obj)]
      ]_vars

\* A second instance of a registered type has just been handed to Provide
\* and was discarded.
C13_Witness ==
    /\ last.op = "Provide" /\ last.obj # Nil
    /\ typeToObjectMap[TypeOf(last.obj)] \notin {Nil, last.obj}
    /\ "OnProvideAfter" \in HooksOf(TypeOf(last.obj))
    /\ observed[last.obj] = << >>

\* ------------------------------------------------------------------- C14
\* C14: a ProvideByName with a nil instance or with a blank name (empty or
\* whitespace only) returns an error and leaves the Type Index, the Name
\* Index, the Fatal Error Log and every bean's fields as they were, and makes
\* no hook call; as the Fatal Error Log is unchanged it does not make a later
\* StartUp fail.
C14_ProvideByNameInvalid ==
    [][ ( /\ last'.op = "ProvideByName"
          /\ (last'.obj = Nil \/ last'.arg \in {"", " "}) )
          => /\ last'.ret = "error"
             /\ UNCHANGED << typeToObjectMap, nameToObjMap, fatalErrors, fieldVal,
                             observed, registered, explicitNames >>
             /\ trace' = << >>
      ]_vars

\* A ProvideByName with a whitespace-only name and a real instance has just
\* been refused.
C14_Witness ==
    /\ last.op = "ProvideByName" /\ last.arg = " " /\ last.obj # Nil
    /\ last.ret = "error"
    /\ Len(fatalErrors) = 0

\* A ProvideByName with a nil instance under a name that is already taken
\* has just been refused without recording a fatal error.
C14_WitnessNil ==
    /\ last.op = "ProvideByName" /\ last.obj = Nil
    /\ nameToObjMap[last.arg] # Nil
    /\ last.ret = "error"
    /\ Len(fatalErrors) = 0

C16_FatalOnlyOnExplicitDuplicate ==
    [][ fatalErrors' # fatalErrors
          => /\ last'.op = "ProvideByName"
             /\ last'.arg \in explicitNames
      ]_vars

\* C16 (amended): the Fatal Error Log changes exactly in a ProvideByName with
\* a non-nil instance and a non-blank name that is already a key of the Name
\* Index, whether an earlier ProvideByName put it there or an earlier Provide
\* inserted it as a default name; the step appends that one name.
C16_FatalIffNameTaken ==
    [][ /\ fatalErrors' # fatalErrors
          <=> ( /\ last'.op = "ProvideByName" /\ last'.obj # Nil
                /\ last'.arg \notin {"", " "}
                /\ nameToObjMap[last'.arg] # Nil
                /\ calls' # calls )
        /\ fatalErrors' # fatalErrors => fatalErrors' = Append(fatalErrors, last'.arg)
      ]_vars

\* A ProvideByName has just recorded a fatal error for a name that no
\* ProvideByName had been given: Provide had inserted it as a default name.
C16_Witness ==
    /\ last.op = "ProvideByName" /\ last.ret = "error" /\ last.obj # Nil
    /\ Len(fatalErrors) > 0
    /\ fatalErrors[Len(fatalErrors)] = last.arg
    /\ last.arg \notin explicitNames
    /\ explicitNames = {}

\* ------------------------------------------------------------------- C17
\* C17: a Provide of a non-nil instance, or an accepted ProvideByName, of a
\* pointer-to-struct instance turns every settable untagged field of map or
\* slice type that was nil into an empty map or slice, and leaves every other
\* field (non-nil, tagged, or not settable) and every other instance's fields
\* as they were.
C17_DefaultSeeding ==
    [][ ( /\ \/ (last'.op = "Provide" /\ last'.obj # Nil)
             \/ (last'.op = "ProvideByName" /\ last'.ret = "ok")
          /\ Kind(TypeOf(last'.obj)) = "ptr" )
          => /\ \A f \in FieldNames(TypeOf(last'.obj)) :
                  LET fd == FieldOf(TypeOf(last'.obj), f) IN
                  fieldVal'[last'.obj][f] =
                      IF /\ fd.exported /\ fd.tag = ""
                         /\ fd.ftype \in {"[]string", "map[string]int"}
                         /\ fieldVal[last'.obj][f] = Nil
                      THEN Empty
                      ELSE fieldVal[last'.obj][f]
             /\ \A i \in Instances \ {last'.obj} : fieldVal'[i] = fieldVal[i]
      ]_vars

\* c1 has just been registered, before any StartUp: its nil slice Items and
\* nil map Index are now empty and its tagged nil slice Tags is still nil.
C17_Witness ==
    /\ last.op \in {"Provide", "ProvideByName"} /\ last.ret = "ok" /\ last.obj = "c1"
    /\ calls = 1
    /\ fieldVal["c1"]["Items"] = Empty
    /\ fieldVal["c1"]["Index"] = Empty
    /\ fieldVal["c1"]["Tags"] = Nil

\* c1 has just been registered with its fields already set by the caller,
\* and they still hold the caller's values.
C17_WitnessKept ==
    /\ last.op \in {"Provide", "ProvideByName"} /\ last.ret = "ok" /\ last.obj = "c1"
    /\ fieldVal["c1"]["Items"] = Ext
    /\ fieldVal["c1"]["Index"] = Ext

\* ------------------------------------------------------------------- C18
\* Every goroutine's call has returned.
AllDone == \A th \in Threads : pc[th] = "done"

\* The instances of type t the goroutines handed to Provide.
Provided(t) ==
    { invoked[th].obj : th \in { u \in Threads : invoked[u].op = "Provide"
                                                 /\ TypeOf(invoked[u].obj) = t } }

\* C18: when every goroutine made one Provide call and all calls have
\* returned, then in every interleaving each type that was provided has a
\* Type Index entry, which is one of the instances provided for it and the
\* only instance of that type whose registration was accepted (hook 1 fired
\* for it alone, once), and GetObjectByType of the type returns it; so N instances
\* of N distinct types are all retrievable, and of several instances of one
\* type exactly one is retained.
C18_ConcurrentProvide ==
    (AllDone /\ \A th \in Threads : invoked[th].op = "Provide")
    => \A t \in Types :
         Provided(t) # {}
         => /\ typeToObjectMap[t] \in Provided(t)
            /\ GetByType(typeToObjectMap, t) = typeToObjectMap[t]
            /\ { k \in 1..Len(registered) : TypeOf(registered[k]) = t }
                 = { k \in 1..Len(registered) : registered[k] = typeToObjectMap[t] }
            /\ Count(registered, typeToObjectMap[t]) = 1
            /\ \A i \in Provided(t) :
                 observed[i] = IF i = typeToObjectMap[t]
                               THEN EventsOf(Hook("OnProvideAfter", i), i) ELSE << >>

\* Three goroutines have each provided an instance of a different type and
\* all three are in the Type Index.
C18_Witness ==
    /\ AllDone
    /\ \A th \in Threads : invoked[th].op = "Provide"
    /\ \A t \in Types : Cardinality(Provided(t)) = 1 /\ typeToObjectMap[t] \in Provided(t)

\* Goroutines t1 and t2 have provided two instances of one type, t2 took the
\* lock first, and its instance is the one retained.
C18_WitnessSameType ==
    /\ AllDone
    /\ invoked["t1"] = Call("Provide", "", "a1", "")
    /\ invoked["t2"] = Call("Provide", "", "a2", "")
    /\ invoked["t3"].op = "Provide"
    /\ typeToObjectMap["*SvcA"] = "a2"

\* ------------------------------------------------------------------- C19
\* Goroutine th is inside a StartUp that passed the fatal-error gate and has
\* not returned: from before its first hook 2 to after its last hook 4.
MidStartUp(th) == pc[th] \in {"pass1", "pass2"}

\* No two goroutines are inside the bodies of their calls at once, unless
\* both are in GetObjectByType.
Exclusive ==
    \A a, b \in Threads :
        (a # b /\ InBody(a) /\ InBody(b))
        => (invoked[a].op = "GetObjectByType" /\ invoked[b].op = "GetObjectByType")

\* C19: Provide, ProvideByName and StartUp exclude each other and
\* GetObjectByType; while one goroutine is inside a StartUp, every other
\* goroutine can at most issue its call, which neither enters its body nor
\* returns, and so the tables, the fields and the hook sequence change only
\* by that StartUp's own steps; in particular two StartUps never interleave.
C19_StartUpExcludesOthers ==
    [][ /\ Exclusive'
        /\ \A s \in Threads :
             MidStartUp(s)
             => /\ \A th \in Threads \ {s} :
                     \/ pc'[th] = pc[th]
                     \/ (pc[th] = "idle" /\ pc'[th] = "waiting")
                /\ (pc'[s] = pc[s] /\ todo1' = todo1 /\ todo2' = todo2)
                     => UNCHANGED << typeToObjectMap, nameToObjMap, fatalErrors, fieldVal,
                                     last, trace, observed >>
      ]_vars

\* A StartUp has fired its first hooks and has hook 4 calls left to make
\* while another goroutine waits with a GetObjectByType call.
C19_Witness ==
    \E s, th \in Threads :
        /\ s # th
        /\ MidStartUp(s) /\ trace # << >> /\ todo2 # {}
        /\ pc[th] = "waiting" /\ invoked[th].op = "GetObjectByType"

\* A StartUp is between its loops while a second StartUp waits for the lock.
C19_WitnessTwoStartUps ==
    \E s, th \in Threads :
        /\ s # th
        /\ pc[s] = "pass2" /\ trace # << >> /\ todo2 # {}
        /\ pc[th] = "waiting" /\ invoked[th].op = "StartUp"

\* ------------------------------------------------------------------- C20
\* C20: at most one Container is ever constructed, and every Instance() call
\* of every goroutine, concurrent or one after another, returns a pointer to
\* it: none returns nil and none returns a second container.
C20_OneContainer ==
    /\ made <= 1
    /\ \A th \in Threads : \A k \in 1..Len(got[th]) : got[th][k] # 0 /\ got[th][k] = 1

\* Every goroutine has had Instance() return twice.
C20_Witness ==
    /\ \A th \in Threads : Len(got[th]) = 2
    /\ made = 1 /\ onceDone

\* One goroutine is inside the function literal while another waits for
\* _once.m and a third has not yet looked at done.
C20_WitnessRace ==
    \E a, b, c \in Threads :
        /\ ipc[a] = "ran" /\ ipc[b] = "slow" /\ ipc[c] = "do"
        /\ ~onceDone /\ instance # 0

\* ------------------------------------------------------------------- C21
\* C21: GetObjectByType of a concrete type returns the Type Index entry of
\* that type (the zero value when there is none); of an interface type it
\* returns a bean held in the Type Index whose type implements the interface
\* when there is one, and the zero value otherwise; and it leaves the Type
\* Index, the Name Index, the Fatal Error Log and every field as they were.
C21_GetObjectByType ==
    [][ last'.op = "GetObjectByType"
          => /\ UNCHANGED << typeToObjectMap, nameToObjMap, fatalErrors, fieldVal >>
             /\ last'.arg \in Types => last'.ret = typeToObjectMap[last'.arg]
             /\ last'.arg \in Ifaces =>
                  IF \E i \in Held : Implements(TypeOf(i), last'.arg)
                  THEN last'.ret \in Held /\ Implements(TypeOf(last'.ret), last'.arg)
                  ELSE last'.ret = Nil
      ]_vars

\* GetObjectByType of the interface Svc has just returned the one bean that
\* implements it, while a bean that does not implement it is held as well.
C21_Witness ==
    /\ last.op = "GetObjectByType" /\ last.arg = "Svc"
    /\ last.ret \in {"a1", "a2"}
    /\ typeToObjectMap["*Ctrl"] = "c1"

\* GetObjectByType has just returned the zero value for an interface no held
\* bean implements, on a container that holds beans.
C21_WitnessMiss ==
    /\ last.op = "GetObjectByType" /\ last.arg = "Cache"
    /\ last.ret = Nil
    /\ Held # {}

\* ------------------------------------------------------------------- C22
\* The interface type of the scanning field slot = << instance, field >>.
SlotType(slot) == FieldOf(TypeOf(slot[1]), slot[2]).ftype

\* C22 (as stated): after a successful StartUp, two by-type fields of the
\* same interface type that several held beans implement hold the same bean.
C22_SameBeanForSameInterface ==
    StartedUp =>
        \A s1, s2 \in ScanSlots(typeToObjectMap) :
            ( /\ SlotType(s1) = SlotType(s2)
              /\ Cardinality(Implementers(SlotType(s1))) > 1 )
            => fieldVal[s1[1]][s1[2]] = fieldVal[s2[1]][s2[2]]

\* C22 (amended): after a successful StartUp, every settable by-type field of
\* interface type, mandatory or optional, of a pointer bean of the Type Index
\* holds one of the held beans that implement the interface whenever there is
\* one; which one is left to the order of that field's own scan.
C22_SomeImplementer ==
    StartedUp =>
        \A slot \in ScanSlots(typeToObjectMap) :
            Implementers(SlotType(slot)) # {}
            => fieldVal[slot[1]][slot[2]] \in Implementers(SlotType(slot))

\* One StartUp has given two fields of the same interface type of one bean
\* two different implementing beans.
C22_Witness ==
    /\ StartedUp
    /\ registered = << "a1", "b1" >>
    /\ fieldVal["a1"]["Next"] = "b1"
    /\ fieldVal["a1"]["Alt"] = "a1"

\* The same registration sequence and StartUp, with the other outcome for the
\* field Next.
C22_WitnessOtherRun ==
    /\ StartedUp
    /\ registered = << "a1", "b1" >>
    /\ fieldVal["a1"]["Next"] = "a1"

\* ------------------------------------------------------------------- C23
\* The settable fields of concrete type tagged "true" or "false" of type t.
ConcreteByTypeFields(t) ==
    { f \in TaggedSettable(t) :
        FieldOf(t, f).tag \in {"true", "false"} /\ Kind(FieldOf(t, f).ftype) # "interface" }

C23_WitnessAssigned ==
    /\ StartedUp
    /\ nameToObjMap["SvcA"] \in {"a1", "a2"}
    /\ fieldVal["c1"]["Conc"] = nameToObjMap["SvcA"]
    /\ fieldVal["c1"]["ConcOpt"] = nameToObjMap["SvcA"]

\* After a successful StartUp both fields are still nil because the Name
\* Index keeps a bean of another type under "SvcA".
C23_WitnessMismatch ==
    /\ StartedUp
    /\ typeToObjectMap["*Ctrl"] = "c1"
    /\ nameToObjMap["SvcA"] \in {"b1", "c1"}
    /\ fieldVal["c1"]["Conc"] = Nil
    /\ fieldVal["c1"]["ConcOpt"] = Nil

\* ------------------------------------------------------------------- C24
\* The settable fields of type t whose tag is a bean name.
ByNameFields(t) ==
    { f \in TaggedSettable(t) : FieldOf(t, f).tag \notin {"true", "false"} }

\* C24: a successful StartUp assigns a settable by-name field of a held bean
\* exactly when the Name Index has an entry under the tag whose type is
\* assignable to the field's type or implements the field's interface type,
\* and then assigns that entry; when the entry is absent or does not fit, the
\* field keeps its value.
C24_ByName ==
    [][ (last'.op = "StartUp" /\ last'.ret = "ok")
          => \A i \in Held : \A f \in ByNameFields(TypeOf(i)) :
               LET fd == FieldOf(TypeOf(i), f)
                   obj == Lookup(nameToObjMap, fd.tag)
               IN
               fieldVal'[i][f] =
                   IF /\ obj # Nil
                      /\ \/ TypeOf(obj) = fd.ftype
                         \/ (fd.ftype \in Ifaces /\ Implements(TypeOf(obj), fd.ftype))
                   THEN obj
                   ELSE fieldVal[i][f]
      ]_vars

\* After a successful StartUp the by-name fields of c1 tagged "x" both hold
\* the *SvcA bean registered under "x": one by its concrete type, one by the
\* interface it implements.
C24_Witness ==
    /\ StartedUp
    /\ typeToObjectMap["*Ctrl"] = "c1"
    /\ nameToObjMap["x"] \in {"a1", "a2"}
    /\ fieldVal["c1"]["ByName"] = nameToObjMap["x"]
    /\ fieldVal["c1"]["Named"] = nameToObjMap["x"]

\* After a successful StartUp the field ByName of c1 is still nil because
\* the bean registered under "x" is of another type, while the field Named
\* holds it.
C24_WitnessMismatch ==
    /\ StartedUp
    /\ typeToObjectMap["*Ctrl"] = "c1"
    /\ nameToObjMap["x"] = "b1"
    /\ fieldVal["c1"]["ByName"] = Nil
    /\ fieldVal["c1"]["Named"] = "b1"

\* ---------------------------------------------------------------------------
\* C25
\* ---------------------------------------------------------------------------

\* The by-type fields of type t: those tagged "true" or "false".
ByTypeFields(t) ==
    { FieldsOf(t)[k] : k \in { j \in 1..Len(FieldsOf(t)) : FieldsOf(t)[j].tag \in {"true", "false"} } }

\* The field fd declared with the tag value tag instead of its own.
WithTag(fd, tag) == [fd EXCEPT !.tag = tag]

\* Every by-type field of every instance, as a pair of instance and field.
ByTypeSlots == UNION { { << i, fd >> : fd \in ByTypeFields(TypeOf(i)) } : i \in Instances }

\* C25: mandatory and optional by-type resolution are equivalent on field
\* values.  In every registry state, for every held bean, every by-type field
\* of it with the value it holds and every candidate list a scan of the
\* Type Index can collect, resolving the field as "true" and as
\* "false" leaves the same value in it; what is logged is either the same, or
\* at error level for "true" and at info level for "false".  In particular the
\* two *SvcA fields of *Ctrl, one mandatory and one optional, always agree.
C25_MandatoryOptionalSameValue ==
    /\ LET lists == [iface \in Ifaces |-> CandidateLists(typeToObjectMap, iface)]
           held == Held
       IN
       \A s \in ByTypeSlots :
          s[1] \in held
          => LET cur == fieldVal[s[1]][s[2].name] IN
             \A cands \in (IF s[2].ftype \in Ifaces THEN lists[s[2].ftype] ELSE { << >> }) :
                LET m == InjectField(nameToObjMap, s[1], WithTag(s[2], "true"), cur, cands)
                    o == InjectField(nameToObjMap, s[1], WithTag(s[2], "false"), cur, cands)
                IN /\ m.val = o.val
                   /\ \/ m.logs = o.logs
                      \/ /\ \A l \in m.logs : l.level = "error"
                         /\ \A l \in o.logs : l.level = "info"
                         /\ m.val = cur
    /\ fieldVal["c1"]["Conc"] = fieldVal["c1"]["ConcOpt"]

\* C25, the case happens: StartUp resolved the mandatory and the optional
\* *SvcA field of the held *Ctrl bean to the same bean.
C25_Witness ==
    /\ StartedUp
    /\ typeToObjectMap["*Ctrl"] = "c1"
    /\ fieldVal["c1"]["Conc"] \in {"a1", "a2"}
    /\ fieldVal["c1"]["ConcOpt"] = fieldVal["c1"]["Conc"]

\* C25, the miss: both fields stayed nil, the mandatory one with an error and
\* the optional one with an info message.
C25_WitnessMiss ==
    /\ StartedUp
    /\ fieldVal["c1"]["Conc"] = Nil
    /\ fieldVal["c1"]["ConcOpt"] = Nil
    /\ \E l \in logs : l.level = "error" /\ l.obj = "c1" /\ l.field = "Conc"
    /\ \E l \in logs : l.level = "info" /\ l.obj = "c1" /\ l.field = "ConcOpt"

\* ---------------------------------------------------------------------------
\* C26
\* ---------------------------------------------------------------------------

\* The tagged fields of type t that reflection cannot set (unexported ones).
TaggedNonSettable(t) ==
    { f \in FieldNames(t) : FieldOf(t, f).tag # "" /\ Kind(t) = "ptr" /\ ~FieldOf(t, f).exported }

\* Every tagged field that cannot be set, as a pair of instance and field name.
NonSettableSlots ==
    UNION { { << i, f >> : f \in TaggedNonSettable(TypeOf(i)) } : i \in Instances }

\* Every tagged field that can be set, as a pair of instance and field.
SettableSlots ==
    UNION { { << i, FieldOf(TypeOf(i), f) >> : f \in TaggedSettable(TypeOf(i)) } :
            i \in Instances }

\* Field fd of the held bean i shows the outcome of a resolution against the
\* present indexes: the bean found for it when there is a fitting one, and a
\* diagnostic about the field in any case.
ResolvedNow(i, fd) ==
    LET obj == Lookup(nameToObjMap, IF fd.tag \in {"true", "false"}
                                    THEN SimpleName(fd.ftype) ELSE fd.tag)
    IN
    /\ \E l \in logs : l.obj = i /\ l.field = fd.name /\ l.kind # "notSettable"
    /\ IF fd.tag \in {"true", "false"} /\ Kind(fd.ftype) = "interface"
       THEN Implementers(fd.ftype) # {} => fieldVal[i][fd.name] \in Implementers(fd.ftype)
       ELSE (obj # Nil /\ AssignableTo(TypeOf(obj), fd.ftype)) => fieldVal[i][fd.name] = obj

\* C26: a tagged field that is not settable is never written, and it does not
\* stop the resolution.  Such a field of a pointer bean holds in every state
\* what it held at construction, never a bean of the container;
\* and when StartUp ran on a container without fatal errors that holds a bean
\* with such a field, StartUp returned success, reported the field, and every
\* tagged settable field of the same bean (declared before or after it) was
\* resolved.
C26_NonSettableSkipped ==
    /\ \A s \in NonSettableSlots : fieldVal[s[1]][s[2]] \notin Instances
    /\ (last.op = "StartUp" /\ Len(fatalErrors) = 0)
       => \A s \in NonSettableSlots :
            typeToObjectMap[TypeOf(s[1])] = s[1]
            => /\ last.ret = "ok"
               /\ Log("error", "notSettable", s[1], s[2]) \in logs
               /\ \A r \in SettableSlots : r[1] = s[1] => ResolvedNow(r[1], r[2])

\* C26, the case happens: StartUp succeeded on a container holding the *Ctrl
\* bean; its unexported tagged field was reported and left nil although an
\* implementation was there, and a field declared after it was assigned.
C26_Witness ==
    /\ StartedUp
    /\ typeToObjectMap["*Ctrl"] = "c1"
    /\ Implementers("Svc") # {}
    /\ fieldVal["c1"]["hidden"] = Nil
    /\ Log("error", "notSettable", "c1", "hidden") \in logs
    /\ fieldVal["c1"]["Svc"] \in Implementers("Svc")
    /\ fieldVal["c1"]["Conc"] \in {"a1", "a2"}

\* ---------------------------------------------------------------------------
\* C27
\* ---------------------------------------------------------------------------

\* C27: Provide of an instance of a type the Type Index does not hold yet,
\* whose default name is already in the Name Index, inserts the instance into
\* the Type Index, leaves the Name Index as it is (the name keeps its earlier
\* instance), fires OnProvideAfter if the instance implements it and records
\* no fatal error; and a StartUp on a container without fatal errors succeeds.
C27_DefaultNameTaken ==
    [][ /\ ( /\ last'.op = "Provide"
             /\ last'.obj # Nil
             /\ typeToObjectMap[TypeOf(last'.obj)] = Nil
             /\ nameToObjMap[SimpleName(TypeOf(last'.obj))] # Nil )
           => /\ typeToObjectMap' = [typeToObjectMap EXCEPT ![TypeOf(last'.obj)] = last'.obj]
              /\ nameToObjMap' = nameToObjMap
              /\ nameToObjMap'[SimpleName(TypeOf(last'.obj))] # last'.obj
              /\ trace' = Hook("OnProvideAfter", last'.obj)
              /\ fatalErrors' = fatalErrors
              /\ last'.ret = "ok"
        /\ (last'.op = "StartUp" /\ Len(fatalErrors) = 0) => last'.ret = "ok"
      ]_vars

\* C27, the case happens: "SvcA" was given to a SvcB bean by ProvideByName,
\* then Provide(a1) registered the first *SvcA bean: a1 is in the Type Index,
\* "SvcA" still names b1, a1 saw OnProvideAfter and nothing fatal is recorded.
C27_Witness ==
    /\ last = Call("Provide", "", "a1", "ok")
    /\ registered = << "b1", "a1" >>
    /\ explicitNames = {"SvcA"}
    /\ typeToObjectMap["*SvcA"] = "a1"
    /\ nameToObjMap["SvcA"] = "b1"
    /\ trace = << Ev("OnProvideAfter", "a1") >>
    /\ fatalErrors = << >>

\* C27, the later StartUp: it succeeded on that container.
C27_WitnessStartUp ==
    /\ StartedUp
    /\ registered = << "b1", "a1" >>
    /\ explicitNames = {"SvcA"}
    /\ typeToObjectMap["*SvcA"] = "a1"
    /\ nameToObjMap["SvcA"] = "b1"

\* ---------------------------------------------------------------------------
\* C28
\* ---------------------------------------------------------------------------

\* C28: a ProvideByName call with a non-nil instance and a non-blank name that
\* the Name Index already holds changes nothing except the Fatal Error Log,
\* which grows by exactly one entry: the Type Index and the Name Index are
\* unchanged, no field of any instance is seeded, no hook fires, nothing is
\* added to the registrations, and the call returns its error to the caller.
C28_RejectedProvideByNameFrame ==
    [][ ( /\ last'.op = "ProvideByName"
          /\ last'.obj # Nil
          /\ ~IsBlank(last'.arg)
          /\ nameToObjMap[last'.arg] # Nil )
        => /\ typeToObjectMap' = typeToObjectMap
           /\ nameToObjMap' = nameToObjMap
           /\ fieldVal' = fieldVal
           /\ trace' = << >>
           /\ observed' = observed
           /\ registered' = registered
           /\ Len(fatalErrors') = Len(fatalErrors) + 1
           /\ SubSeq(fatalErrors', 1, Len(fatalErrors)) = fatalErrors
           /\ last'.ret = "error"
      ]_vars

\* C28, the case happens: "x" names a1; ProvideByName("x", c1) was rejected.
\* The Type Index has no *Ctrl bean, "x" still names a1, the slice field of c1
\* is still nil, and the Fatal Error Log has its one entry.
C28_Witness ==
    /\ last = Call("ProvideByName", "x", "c1", "error")
    /\ registered = << "a1" >>
    /\ nameToObjMap["x"] = "a1"
    /\ typeToObjectMap["*Ctrl"] = Nil
    /\ fieldVal["c1"]["Items"] = Nil
    /\ observed["c1"] = << >>
    /\ Len(fatalErrors) = 1

\* C28, a rejected instance that implements IProvideAfter saw no hook.
C28_WitnessNoHook ==
    /\ last = Call("ProvideByName", "x", "a2", "error")
    /\ nameToObjMap["x"] = "a1"
    /\ typeToObjectMap["*SvcA"] = "a1"
    /\ observed["a2"] = << >>
    /\ Len(fatalErrors) = 1

\* ---------------------------------------------------------------------------
\* C30
\* ---------------------------------------------------------------------------

\* C30: Name Index entries are write-once.  No step of Provide, ProvideByName,
\* StartUp or GetObjectByType changes or removes the instance a name is mapped
\* to: a name that maps to an instance maps to the same instance afterwards.
C30_NameIndexWriteOnce ==
    [][ \A n \in DOMAIN nameToObjMap :
          nameToObjMap[n] # Nil => nameToObjMap'[n] = nameToObjMap[n] ]_vars

\* C30, the case happens: a1 was registered as "x" and a2 as "y".  The second
\* call replaced a1 by a2 in the Type Index, yet "x" still names a1; a third
\* call, rejected or not, left both names as they were.
C30_Witness ==
    /\ calls = 3
    /\ registered = << "a1", "a2" >>
    /\ explicitNames = {"x", "y"}
    /\ typeToObjectMap["*SvcA"] = "a2"
    /\ nameToObjMap["x"] = "a1"
    /\ nameToObjMap["y"] = "a2"

\* C30, a default name: Provide(a1) bound "SvcA"; ProvideByName("SvcA", b1)
\* was rejected and "SvcA" still names a1.
C30_WitnessDefaultName ==
    /\ last = Call("ProvideByName", "SvcA", "b1", "error")
    /\ registered = << "a1" >>
    /\ nameToObjMap["SvcA"] = "a1"
    /\ typeToObjectMap["SvcB"] = Nil

\* ---------------------------------------------------------------------------
\* C29
\* ---------------------------------------------------------------------------

\* C29: hooks run while the invoking Provide, ProvideByName or StartUp holds
\* the exclusive lock, so a hook that calls Provide, ProvideByName, StartUp or
\* GetObjectByType blocks forever.  In every step: a goroutine whose hook has
\* called the container holds the write lock itself; the call made by the hook
\* never gets past its Lock or RLock; and the goroutine stays in the hook,
\* with the lock still held, so the enclosing call never returns.
C29_ReentrantHookBlocks ==
    [][ \A th \in Threads :
          /\ pc'[th] = "hook" => (mutex'.writer = th /\ mutex'.readers = {})
          /\ pc'[th] # "nested"
          /\ pc[th] = "hook"
             => /\ pc'[th] = "hook"
                /\ mutex'.writer = th
                /\ hookCall'[th] = hookCall[th]
      ]_vars

\* C29, the case happens: OnProvideAfter of the instance given to Provide by
\* one goroutine has called GetObjectByType; the instance is already in the
\* Type Index, the call has not returned, and a second goroutine waits for
\* the lock.
C29_Witness ==
    \E th, o \in Threads :
        /\ th # o
        /\ pc[th] = "hook"
        /\ invoked[th].op = "Provide"
        /\ hookCall[th].op = "GetObjectByType"
        /\ typeToObjectMap[TypeOf(invoked[th].obj)] = invoked[th].obj
        /\ mutex.writer = th
        /\ pc[o] = "waiting"

\* C29, a hook of StartUp has called Provide.
C29_WitnessStartUp ==
    \E th \in Threads :
        /\ pc[th] = "hook"
        /\ invoked[th].op = "StartUp"
        /\ hookCall[th].op = "Provide"
        /\ trace # << >>
        /\ mutex.writer = th

\* C29, a hook of ProvideByName has called StartUp.
C29_WitnessProvideByName ==
    \E th \in Threads :
        /\ pc[th] = "hook"
        /\ invoked[th].op = "ProvideByName"
        /\ hookCall[th].op = "StartUp"
        /\ nameToObjMap["x"] = "a2"
        /\ mutex.writer = th

\* ---------------------------------------------------------------------------
\* C31
\* ---------------------------------------------------------------------------

\* C31: the frame of StartUp.  A StartUp call, successful or not, leaves the
\* Type Index, the Name Index and the Fatal Error Log as they were; a field
\* it changes is a tagged settable field of a bean the Type Index holds, and
\* only a successful StartUp changes one; a refused StartUp changes no field,
\* fires no hook and adds nothing to what the instances have seen.
C31_StartUpFrame ==
    [][ last'.op = "StartUp"
        => /\ typeToObjectMap' = typeToObjectMap
           /\ nameToObjMap' = nameToObjMap
           /\ fatalErrors' = fatalErrors
           /\ registered' = registered
           /\ \A i \in Instances : \A f \in FieldNames(TypeOf(i)) :
                fieldVal'[i][f] # fieldVal[i][f]
                => /\ last'.ret = "ok"
                   /\ typeToObjectMap[TypeOf(i)] = i
                   /\ f \in TaggedSettable(TypeOf(i))
           /\ last'.ret = "error"
              => /\ fieldVal' = fieldVal
                 /\ trace' = << >>
                 /\ observed' = observed
      ]_vars

\* C31, the case happens: a successful StartUp has assigned the tagged fields
\* of the held *Ctrl bean while its untagged slice still holds the value
\* Provide seeded, its unexported field holds no bean, and an instance the
\* Type Index does not hold has no field assigned.
C31_Witness ==
    /\ StartedUp
    /\ registered = << "a1", "c1" >>
    /\ typeToObjectMap["*SvcA"] = "a1"
    /\ typeToObjectMap["*Ctrl"] = "c1"
    /\ fieldVal["c1"]["Svc"] = "a1"
    /\ fieldVal["c1"]["Conc"] = "a1"
    /\ fieldVal["c1"]["Items"] = Empty
    /\ fieldVal["c1"]["hidden"] = Nil
    /\ fieldVal["a1"]["Next"] = "a1"
    /\ fieldVal["a2"]["Next"] = Nil
    /\ fatalErrors = << >>

\* C31, the refused StartUp: a fatal error is recorded, the Type Index holds
\* a bean whose mandatory field could be resolved, and StartUp has returned
\* its error with that field still nil and no hook fired.
C31_WitnessRefused ==
    /\ last = Call("StartUp", "", Nil, "error")
    /\ Len(fatalErrors) = 1
    /\ typeToObjectMap["*SvcA"] = "a1"
    /\ nameToObjMap["SvcA"] = "a1"
    /\ fieldVal["a1"]["Next"] = Nil
    /\ trace = << >>
    /\ "OnInjectBefore" \notin { observed["a1"][k] : k \in 1..Len(observed["a1"]) }
====
